---- MODULE Spec2Model ----
(***************************************************************************)
(* Model of the media-container utilities of spgill.utils.media:           *)
(*   - Container.select_tracks_from_list (info.py), the track selector,    *)
(*   - Track.hdr_formats (info.py), the cached HDR probe,                   *)
(*   - MuxJob (mux.py), the track order and the option stores.             *)
(* Three specifications share the variables:                               *)
(*   SelSpec  one call of select_tracks_from_list, fragment by fragment,    *)
(*   HdrSpec  any sequence of accesses to the HDR information of tracks,    *)
(*   Spec     any sequence of MuxJob operations.                            *)
(***************************************************************************)
EXTENDS Integers, Sequences, FiniteSets, TLC

(***************************************************************************)
(* Bounds of the model.                                                    *)
(***************************************************************************)
\* longest index/slice-list selector, in characters
MaxSelLen == 3
\* most ':'-separated fragments of an expression-chain selector
MaxFrags == 2
\* most invocations of the frame probe counted per track
MaxProbeCalls == 2
\* calls of auto_assign_track_options on one job
MaxPasses == 2
\* calls that change one EditJob
MaxEditCalls == 3

(***************************************************************************)
(* The probed containers: pure data, as Container.open leaves it.          *)
(* A track is identified by its container and its index in it; the         *)
(* attributes are those the selector and the HDR detection read.           *)
(***************************************************************************)
NoContainer == "None"

Video == "video"
Audio == "audio"
Subtitle == "subtitle"
Attachment == "attachment"

HDR10 == "hdr10"
HDR10Plus == "hdr10plus"
DolbyVision == "dolbyvision"
HLG == "hlg"

DolbyVisionRPU == "Dolby Vision RPU Data"
HDRDynamicMeta == "HDR Dynamic Metadata SMPTE2094-40 (HDR10+)"
MasterDisplayMeta == "Mastering display metadata"

TrackAttrs(type, language, name, forced, color_transfer, side_data) ==
    [type |-> type, language |-> language, name |-> name, forced |-> forced,
     color_transfer |-> color_transfer, frame_side_data |-> side_data]

\* streams of each probed file, in stream order; the last entry is a Track
\* instantiated by hand and never bound to a container
ContainerStreams ==
    [movie |-> << TrackAttrs(Video, "eng", "", FALSE, "smpte2084", {DolbyVisionRPU, MasterDisplayMeta}),
                  TrackAttrs(Audio, "eng", "", FALSE, "", {}),
                  TrackAttrs(Audio, "jpn", "Commentary", FALSE, "", {}),
                  TrackAttrs(Video, "jpn", "", FALSE, "arib-std-b67", {HDRDynamicMeta}),
                  TrackAttrs(Subtitle, "eng", "Forced", TRUE, "", {}) >>,
     extras |-> << TrackAttrs(Attachment, "", "", FALSE, "", {}),
                   TrackAttrs(Subtitle, "jpn", "SDH", FALSE, "", {}) >>,
     clip |-> << TrackAttrs(Audio, "eng", "Commentary", FALSE, "", {}) >>,
     feature |-> << TrackAttrs(Subtitle, "", "SDH", FALSE, "", {}),
                    TrackAttrs(Audio, "eng", "Commentary", FALSE, "", {}),
                    TrackAttrs(Audio, "eng", "", FALSE, "", {}) >>,
     None |-> << TrackAttrs(Video, "", "", FALSE, "smpte2084", {}) >>]

Containers == {"movie", "extras", "clip", "feature"}

Track(c, i) == [container |-> c, index |-> i]

\* Container.tracks
ContainerTracksOf(c) == [k \in 1..Len(ContainerStreams[c]) |-> Track(c, k - 1)]

Attr(t) == ContainerStreams[t.container][t.index + 1]

TypeOf(t) == Attr(t).type

\* Track.flags: the tracks with the commentary and the hearing_impaired
\* disposition
CommentaryTracks == {}
HearingImpairedTracks == {}
DefaultTracks == {}
TrackFlags(t) ==
    [default |-> t \in DefaultTracks,
     forced |-> Attr(t).forced,
     hearing_impaired |-> t \in HearingImpairedTracks,
     commentary |-> t \in CommentaryTracks]

IsBound(t) == t.container # NoContainer

Range(s) == {s[i] : i \in 1..Len(s)}

\* Python's `x in list`
InList(x, s) == \E i \in 1..Len(s) : s[i] = x

NoDuplicates(s) == \A i, j \in 1..Len(s) : i # j => s[i] # s[j]

(***************************************************************************)
(* State.                                                                  *)
(***************************************************************************)
VARIABLES
    \* select_tracks_from_list: arguments, position, locals, outcome
    track_list, selector, sel_pc, fragments, indexed_tracks, selected_tracks,
    sel_result, sel_error, sel_call, prev_result,
    \* Track.hdr_formats: the cached_property slot of every track, and the
    \* history of the frame probe (invocations, results returned)
    hdr_cache, probe_calls, probe_results, hdr_last,
    \* MuxJob: _track_order, _track_options, _container_options; the sets of
    \* tracks whose entries of _track_options are one and the same dict;
    \* the exception the last call raised ("" when it returned)
    track_order, track_options, container_options, shared_options, job_error,
    \* MuxJob._output_options; what the last call gave back or ran (NoOutput
    \* after a call that changes the job); the number of passes of
    \* auto_assign_track_options made over the job
    output_options, job_out, job_passes,
    \* EditJob: _track_actions, _tag_actions, _chapter_action,
    \* _container_title_action; the calls made on the job so far, the list
    \* the last generation gave, the exception the last call raised
    track_actions, tag_actions, chapter_action, container_title_action,
    edit_calls, edit_out, edit_error

sel_vars == <<track_list, selector, sel_pc, fragments, indexed_tracks,
              selected_tracks, sel_result, sel_error, sel_call, prev_result>>
hdr_vars == <<hdr_cache, probe_calls, probe_results, hdr_last>>
job_vars ==
    <<track_order, track_options, container_options, shared_options, job_error,
      output_options, job_out, job_passes>>
edit_vars ==
    <<track_actions, tag_actions, chapter_action, container_title_action,
      edit_calls, edit_out, edit_error>>
vars == <<sel_vars, hdr_vars, job_vars, edit_vars>>

AllTracks == UNION {Range(ContainerTracksOf(c)) : c \in Containers \cup {NoContainer}}

(***************************************************************************)
(* Track.hdr_formats, Track.is_hdr, Track.type_index,                      *)
(* Track.get_selector_values                                               *)
(***************************************************************************)
\* the slot functools.cached_property keeps in the instance
Uncached == [cached |-> FALSE, formats |-> {}]
CachedSlot(f) == [cached |-> TRUE, formats |-> f]

\* what the body of hdr_formats returns for a video track once the frame
\* probe has returned the side data of the first frames
DetectedFormats(t) ==
    (IF Attr(t).color_transfer = "smpte2084" THEN {HDR10}
     ELSE IF Attr(t).color_transfer = "arib-std-b67" THEN {HLG} ELSE {})
    \cup (IF DolbyVisionRPU \in Attr(t).frame_side_data THEN {DolbyVision} ELSE {})
    \cup (IF HDRDynamicMeta \in Attr(t).frame_side_data THEN {HDR10Plus} ELSE {})

\* hdr_formats as a plain property: the value is computed at every read
HdrFormatsAccessUncached(t, slot, probe_ok) ==
    IF TypeOf(t) # Video
    THEN [outcome |-> "value", formats |-> {}, slot |-> slot,
          probes |-> 0, results |-> 0]
    ELSE IF ~IsBound(t)
    THEN [outcome |-> "TrackNoParentContainer", formats |-> {}, slot |-> slot,
          probes |-> 0, results |-> 0]
    ELSE IF ~probe_ok
    THEN [outcome |-> "ErrorReturnCode", formats |-> {}, slot |-> slot,
          probes |-> 1, results |-> 0]
    ELSE [outcome |-> "value", formats |-> DetectedFormats(t), slot |-> slot,
          probes |-> 1, results |-> 1]

\* one read of track.hdr_formats with the slot as it is; probe_ok says
\* whether the ffprobe subprocess, if invoked, exits normally.
\* probes/results count the invocations of the probe and the results it returned
HdrFormatsAccess(t, slot, probe_ok) ==
    IF slot.cached
    THEN [outcome |-> "value", formats |-> slot.formats, slot |-> slot,
          probes |-> 0, results |-> 0]
    ELSE IF TypeOf(t) # Video
    THEN [outcome |-> "value", formats |-> {}, slot |-> CachedSlot({}),
          probes |-> 0, results |-> 0]
    ELSE IF ~IsBound(t)
    THEN [outcome |-> "TrackNoParentContainer", formats |-> {}, slot |-> slot,
          probes |-> 0, results |-> 0]
    ELSE IF ~probe_ok
    THEN [outcome |-> "ErrorReturnCode", formats |-> {}, slot |-> slot,
          probes |-> 1, results |-> 0]
    ELSE [outcome |-> "value", formats |-> DetectedFormats(t),
          slot |-> CachedSlot(DetectedFormats(t)), probes |-> 1, results |-> 1]

\* a second read after a first one
HdrThen(t, first, probe_ok) ==
    IF first.outcome # "value" THEN first
    ELSE LET next == HdrFormatsAccess(t, first.slot, probe_ok)
         IN [next EXCEPT !.probes = first.probes + next.probes,
                         !.results = first.results + next.results]

\* Track.type_index: same-type tracks before this one in its container
\* the rank of the track among the tracks of its type in the list selected
\* from
TypeIndexInList(t) ==
    Cardinality({k \in 1..Len(track_list) :
                    /\ TypeOf(track_list[k]) = TypeOf(t)
                    /\ \E m \in (k + 1)..Len(track_list) : track_list[m] = t})

\* Track.type_index, of a track that has a container
TypeIndex(t) ==
    Cardinality({k \in 1..t.index : TypeOf(Track(t.container, k - 1)) = TypeOf(t)})

\* Track.get_selector_values: the dictionary is built in order, typeIndex
\* before isHDR (is_hdr), isDoVi and isHDR10Plus (hdr_formats twice more)
GetSelectorValues(t, slot, oks) ==
    IF ~IsBound(t)
    THEN [outcome |-> "TrackNoParentContainer", formats |-> {}, slot |-> slot,
          probes |-> 0, results |-> 0]
    ELSE HdrThen(t, HdrThen(t, HdrFormatsAccess(t, slot, oks[1]), oks[2]), oks[3])

\* the tracks whose HDR information the accesses of HdrSpec read
HdrTracks == Range(ContainerTracksOf("movie")) \cup Range(ContainerTracksOf(NoContainer))

NoAccess ==
    [track |-> Track(NoContainer, 0), op |-> "none", outcome |-> "none",
     formats |-> {}, probes |-> 0]

HdrInitState ==
    /\ hdr_cache = [t \in AllTracks |-> Uncached]
    /\ probe_calls = [t \in AllTracks |-> 0]
    /\ probe_results = [t \in AllTracks |-> 0]
    /\ hdr_last = NoAccess

\* the effect of an access with result r on the HDR state
HdrEffect(t, op, r) ==
    /\ probe_calls[t] + r.probes <= MaxProbeCalls
    /\ hdr_cache' = [hdr_cache EXCEPT ![t] = r.slot]
    /\ probe_calls' = [probe_calls EXCEPT ![t] = @ + r.probes]
    /\ probe_results' = [probe_results EXCEPT ![t] = @ + r.results]
    /\ hdr_last' = [track |-> t, op |-> op, outcome |-> r.outcome,
                    formats |-> r.formats, probes |-> r.probes]

AccessHdrFormats(t) ==
    /\ \E ok \in BOOLEAN : HdrEffect(t, "hdr_formats", HdrFormatsAccess(t, hdr_cache[t], ok))
    /\ UNCHANGED <<sel_vars, job_vars, edit_vars>>

AccessIsHdr(t) ==
    /\ \E ok \in BOOLEAN : HdrEffect(t, "is_hdr", HdrFormatsAccess(t, hdr_cache[t], ok))
    /\ UNCHANGED <<sel_vars, job_vars, edit_vars>>

CallGetSelectorValues(t) ==
    /\ \E oks \in [1..3 -> BOOLEAN] :
          HdrEffect(t, "get_selector_values", GetSelectorValues(t, hdr_cache[t], oks))
    /\ UNCHANGED <<sel_vars, job_vars, edit_vars>>

(***************************************************************************)
(* Selector strings.  A string is a sequence of characters; the names of   *)
(* an expression (isAudio, title, ...) are kept as one element each.       *)
(***************************************************************************)
Digits == {"0", "1", "2", "3", "4", "5", "6", "7", "8", "9"}
DigitValue == [d \in Digits |->
    CASE d = "0" -> 0 [] d = "1" -> 1 [] d = "2" -> 2 [] d = "3" -> 3 [] d = "4" -> 4
      [] d = "5" -> 5 [] d = "6" -> 6 [] d = "7" -> 7 [] d = "8" -> 8 [] d = "9" -> 9]
TypeChars == {"v", "a", "s"}

\* the selector argument None
NoneSelector == <<"<None>">>

CharAt(s, i) == IF i >= 1 /\ i <= Len(s) THEN s[i] ELSE ""

(***************************************************************************)
(* _comma_delim_nos_pattern: each operator gives the positions at which a  *)
(* part of the pattern can end when it starts at position i.               *)
(***************************************************************************)
RECURSIVE DigitRun(_, _)
\* \d+
DigitRun(s, i) ==
    IF CharAt(s, i) \in Digits THEN {i + 1} \cup DigitRun(s, i + 1) ELSE {}

\* -?\d+
SignedInt(s, i) ==
    DigitRun(s, i) \cup (IF CharAt(s, i) = "-" THEN DigitRun(s, i + 1) ELSE {})

\* (?:-?\d+)?
OptSignedInt(s, i) == {i} \cup SignedInt(s, i)

\* [vas]?
OptType(s, i) == {i} \cup (IF CharAt(s, i) \in TypeChars THEN {i + 1} ELSE {})

\* (?:(?<=\d)\:|\:(?=-?\d))
SliceColon(s, i) ==
    IF CharAt(s, i) = ":" /\ (CharAt(s, i - 1) \in Digits \/ SignedInt(s, i + 1) # {})
    THEN {i + 1} ELSE {}

\* [vas]?(?:-?\d+)?(?:(?<=\d)\:|\:(?=-?\d))(?:-?\d+)?
SliceAlternative(s, i) ==
    UNION {UNION {UNION {OptSignedInt(s, c) : c \in SliceColon(s, b)}
                  : b \in OptSignedInt(s, a)}
           : a \in OptType(s, i)}

\* [vas]?-?\d+
IndexAlternative(s, i) == UNION {SignedInt(s, a) : a \in OptType(s, i)}

\* (?:(?<!^),)?
OptComma(s, i) == {i} \cup (IF i > 1 /\ CharAt(s, i) = "," THEN {i + 1} ELSE {})

\* one repetition of the outer group
PatternItem(s, i) ==
    UNION {SliceAlternative(s, k) \cup IndexAlternative(s, k) : k \in OptComma(s, i)}

RECURSIVE PatternReach(_, _, _)
PatternReach(s, frontier, seen) ==
    IF frontier = {} THEN seen
    ELSE LET next == UNION {PatternItem(s, i) : i \in frontier}
         IN PatternReach(s, next \ seen, seen \cup next)

\* _comma_delim_nos_pattern.match(selector)
CommaDelimNosMatch(s) == (Len(s) + 1) \in PatternReach(s, {1}, {})

(***************************************************************************)
(* str.split, int(), list indexing and slicing                             *)
(***************************************************************************)
RECURSIVE Split(_, _)
Split(s, sep) ==
    IF \E i \in 1..Len(s) : s[i] = sep
    THEN LET i == CHOOSE i \in 1..Len(s) : s[i] = sep /\ \A j \in 1..(i - 1) : s[j] # sep
         IN <<SubSeq(s, 1, i - 1)>> \o Split(SubSeq(s, i + 1, Len(s)), sep)
    ELSE <<s>>

\* int(text) succeeds
IntOk(text) ==
    LET body == IF text # <<>> /\ text[1] = "-" THEN Tail(text) ELSE text
    IN body # <<>> /\ \A i \in 1..Len(body) : body[i] \in Digits

RECURSIVE DecimalValue(_)
DecimalValue(text) ==
    IF text = <<>> THEN 0
    ELSE 10 * DecimalValue(SubSeq(text, 1, Len(text) - 1)) + DigitValue[text[Len(text)]]

\* int(text)
IntOf(text) == IF text[1] = "-" THEN 0 - DecimalValue(Tail(text)) ELSE DecimalValue(text)

\* list[k] does not raise IndexError
PyIndexOk(list, k) == k >= 0 - Len(list) /\ k <= Len(list) - 1

\* list[k]
PyIndex(list, k) == IF k < 0 THEN list[Len(list) + k + 1] ELSE list[k + 1]

\* a slice bound, clamped as list slicing clamps it
SliceBound(k, n) ==
    IF k < 0 THEN (IF k + n < 0 THEN 0 ELSE k + n) ELSE (IF k > n THEN n ELSE k)

\* a slice whose end bound is included
PySliceInclusive(list, start, end) ==
    LET n == Len(list)
        lo == IF start = <<>> THEN 0 ELSE SliceBound(IntOf(start), n)
        hi == IF end = <<>> THEN n ELSE SliceBound(IntOf(end) + 1, n)
    IN SubSeq(list, lo + 1, hi)

\* list[start:end], an empty text standing for an absent bound
PySlice(list, start, end) ==
    LET n == Len(list)
        lo == IF start = <<>> THEN 0 ELSE SliceBound(IntOf(start), n)
        hi == IF end = <<>> THEN n ELSE SliceBound(IntOf(end), n)
    IN SubSeq(list, lo + 1, hi)

\* [track for track in list if track.type is type]
TracksOfType(list, type) ==
    LET ofType(t) == TypeOf(t) = type IN SelectSeq(list, ofType)

(***************************************************************************)
(* Container.select_tracks_from_list                                       *)
(***************************************************************************)
\* `not selector`
Falsy(sel) == sel = NoneSelector \/ sel = <<>>

\* a copy that loses the first track
ListCopyTail(list) == IF list = <<>> THEN list ELSE Tail(list)

\* track_list.copy()
ListCopy(list) == [k \in 1..Len(list) |-> list[k]]

\* _index_with_type_pattern: the optional type letter and the rest
ArgumentType(fragment) ==
    IF fragment # <<>> /\ fragment[1] \in TypeChars THEN fragment[1] ELSE ""
Argument(fragment) ==
    IF ArgumentType(fragment) = "" THEN fragment ELSE Tail(fragment)

\* the list a fragment of the index/slice form is taken from
TrackSource(list, argument_type) ==
    CASE argument_type = "v" -> TracksOfType(list, Video)
      [] argument_type = "a" -> TracksOfType(list, Audio)
      [] argument_type = "s" -> TracksOfType(list, Subtitle)
      [] OTHER -> list

\* a lookup that leaves out an index the list does not have
IndexLookupLenient(track_source, k) ==
    IF ~PyIndexOk(track_source, k)
    THEN [error |-> "", tracks |-> <<>>]
    ELSE [error |-> "", tracks |-> <<PyIndex(track_source, k)>>]

\* indexed_tracks.append(track_source[int(argument)])
IndexLookup(track_source, k) ==
    IF ~PyIndexOk(track_source, k)
    THEN [error |-> "IndexError", tracks |-> <<>>]
    ELSE [error |-> "", tracks |-> <<PyIndex(track_source, k)>>]

\* one pass of the loop over selector.split(","): the tracks the fragment
\* appends to indexed_tracks, or the exception it raises
IndexFragment(list, fragment) ==
    LET argument == Argument(fragment)
        track_source == TrackSource(list, ArgumentType(fragment))
        parts == Split(argument, ":")
    IN IF InList(":", argument)
       THEN IF \E k \in 1..Len(parts) : k <= 2 /\ parts[k] # <<>> /\ ~IntOk(parts[k])
            THEN [error |-> "ValueError", tracks |-> <<>>]
            ELSE IF Len(parts) # 2
            THEN [error |-> "ValueError", tracks |-> <<>>]
            ELSE [error |-> "", tracks |-> PySlice(track_source, parts[1], parts[2])]
       ELSE IF ~IntOk(argument)
            THEN [error |-> "ValueError", tracks |-> <<>>]
            ELSE IndexLookup(track_source, IntOf(argument))

\* the tracks as the fragments named them
IndexResultAsRequested(list, indexed) == indexed

\* [track for track in track_list if track in indexed_tracks]
IndexResult(list, indexed) ==
    LET wanted(t) == InList(t, indexed) IN SelectSeq(list, wanted)

\* _selector_fragment_pattern: polarity and expression
Polarity(fragment) ==
    IF fragment # <<>> /\ fragment[1] \in {"-", "+"} THEN fragment[1] ELSE ""
Expression(fragment) ==
    IF Polarity(fragment) = "" THEN fragment ELSE Tail(fragment)

\* eval(expression, None, track.get_selector_values()): the value if it is a
\* boolean, else the type of the value or the exception raised
EvalExpression(expression, t) ==
    LET bool(b) == IF b THEN "True" ELSE "False"
    IN CASE expression = <<"isVideo">> -> bool(TypeOf(t) = Video)
         [] expression = <<"isAudio">> -> bool(TypeOf(t) = Audio)
         [] expression = <<"isSubtitle">> -> bool(TypeOf(t) = Subtitle)
         [] expression = <<"isEnglish">> -> bool(Attr(t).language \in {"en", "eng"})
         [] expression = <<"isForced">> -> bool(Attr(t).forced)
         [] expression = <<"name">> -> "str"
         [] expression = <<"lang">> -> "str"
         [] expression = <<"index">> -> "int"
         [] expression = <<"typeIndex">> -> "int"
         [] expression = <<"typeIndex == 0">> -> bool(TypeIndex(t) = 0)
         [] expression = <<"typeIndex == 1">> -> bool(TypeIndex(t) = 1)
         [] expression = <<"title">> -> "NameError"
         [] expression = <<"none">> -> "NameError"
         [] expression = <<"isAudio or title">> ->
                IF TypeOf(t) = Audio THEN "True" ELSE "NameError"
         [] expression = <<>> -> "SyntaxError"

\* a check that lets every value through and fails on exceptions only
EvalErrorExceptionsOnly(v) ==
    IF v \in {"NameError", "SyntaxError"} THEN "RuntimeError: exception" ELSE ""

\* the two checks on the outcome of eval: `except Exception` and
\* `not isinstance(eval_result, bool)`; "" when the value passes both
EvalError(v) ==
    IF v \in {"NameError", "SyntaxError"} THEN "RuntimeError: exception"
    ELSE IF v \notin {"True", "False"} THEN "RuntimeError: not boolean"
    ELSE ""

RECURSIVE FilterTracks(_, _, _, _, _)
\* the loop `for track in track_list` of one fragment, from track i on;
\* fail_at is the track whose frame probe fails (0: none does)
FilterTracks(list, expression, i, acc, fail_at) ==
    IF i > Len(list) THEN acc
    ELSE LET t == list[i]
             r == GetSelectorValues(t, acc.cache[t], [k \in 1..3 |-> i # fail_at])
             acc1 == [acc EXCEPT !.cache[t] = r.slot,
                                 !.calls[t] = @ + r.probes,
                                 !.results[t] = @ + r.results]
         IN IF r.outcome # "value"
            THEN [acc1 EXCEPT !.error = "RuntimeError: exception"]
            ELSE LET v == EvalExpression(expression, t)
                 IN IF EvalError(v) # ""
                    THEN [acc1 EXCEPT !.error = EvalError(v)]
                    ELSE FilterTracks(list, expression, i + 1,
                            [acc1 EXCEPT !.filtered =
                                IF v = "True" THEN Append(@, t) ELSE @],
                            fail_at)

\* positive polarity that appends the filtered tracks to the selection
AddFilteredAppended(list, filtered, selected) == selected \o filtered

\* positive polarity
AddFiltered(list, filtered, selected) ==
    LET keep(t) == InList(t, filtered) \/ InList(t, selected)
    IN SelectSeq(list, keep)

\* negative polarity
RemoveFiltered(selected, filtered) ==
    LET keep(t) == ~InList(t, filtered) IN SelectSeq(selected, keep)

\* an unprefixed fragment taken as negative
ApplyPolarityExplicitPlus(polarity, list, filtered, selected) ==
    IF polarity = "+"
    THEN AddFiltered(list, filtered, selected)
    ELSE RemoveFiltered(selected, filtered)

\* if not polarity or polarity == "+": ... else: ...
ApplyPolarity(polarity, list, filtered, selected) ==
    IF polarity = "" \/ polarity = "+"
    THEN AddFiltered(list, filtered, selected)
    ELSE RemoveFiltered(selected, filtered)

Return(result) ==
    /\ sel_pc' = "returned"
    /\ sel_result' = result
    /\ UNCHANGED <<track_list, selector, fragments, indexed_tracks, selected_tracks,
                   sel_error, sel_call, prev_result>>

Raise(error) ==
    /\ sel_pc' = "raised"
    /\ sel_error' = error
    /\ UNCHANGED <<track_list, selector, fragments, indexed_tracks, selected_tracks,
                   sel_result, sel_call, prev_result>>

\* if selector == "none" or not selector: return []
SelectNone ==
    /\ sel_pc = "call"
    /\ selector = <<"none">> \/ Falsy(selector)
    /\ Return(<<>>)
    /\ UNCHANGED <<hdr_vars, job_vars, edit_vars>>

\* if selector == "all": return track_list.copy()
SelectAll ==
    /\ sel_pc = "call"
    /\ ~(selector = <<"none">> \/ Falsy(selector))
    /\ selector = <<"all">>
    /\ Return(ListCopy(track_list))
    /\ UNCHANGED <<hdr_vars, job_vars, edit_vars>>

\* if _comma_delim_nos_pattern.match(selector): ... selector.split(",")
SelectIndexList ==
    /\ sel_pc = "call"
    /\ ~(selector = <<"none">> \/ Falsy(selector))
    /\ selector # <<"all">>
    /\ CommaDelimNosMatch(selector)
    /\ sel_pc' = "index"
    /\ fragments' = Split(selector, ",")
    /\ indexed_tracks' = <<>>
    /\ UNCHANGED <<track_list, selector, selected_tracks, sel_result, sel_error,
                   sel_call, prev_result>>
    /\ UNCHANGED <<hdr_vars, job_vars, edit_vars>>

\* one pass of `for fragment in selector.split(",")`
IndexFragmentStep ==
    /\ sel_pc = "index"
    /\ fragments # <<>>
    /\ LET r == IndexFragment(track_list, Head(fragments))
       IN IF r.error # ""
          THEN Raise(r.error)
          ELSE /\ indexed_tracks' = indexed_tracks \o r.tracks
               /\ fragments' = Tail(fragments)
               /\ UNCHANGED <<track_list, selector, sel_pc, selected_tracks,
                              sel_result, sel_error, sel_call, prev_result>>
    /\ UNCHANGED <<hdr_vars, job_vars, edit_vars>>

IndexReturn ==
    /\ sel_pc = "index"
    /\ fragments = <<>>
    /\ Return(IndexResult(track_list, indexed_tracks))
    /\ UNCHANGED <<hdr_vars, job_vars, edit_vars>>

\* selected_tracks = []; selector_fragments = selector.split(":")
SelectExpressionChain ==
    /\ sel_pc = "call"
    /\ ~(selector = <<"none">> \/ Falsy(selector))
    /\ selector # <<"all">>
    /\ ~CommaDelimNosMatch(selector)
    /\ sel_pc' = "chain"
    /\ fragments' = Split(selector, ":")
    /\ selected_tracks' = <<>>
    /\ UNCHANGED <<track_list, selector, indexed_tracks, sel_result, sel_error,
                   sel_call, prev_result>>
    /\ UNCHANGED <<hdr_vars, job_vars, edit_vars>>

\* the tracks of the list whose frame probe an evaluation would invoke
WouldProbe(list) ==
    {i \in 1..Len(list) :
        TypeOf(list[i]) = Video /\ IsBound(list[i]) /\ ~hdr_cache[list[i]].cached}

\* one pass of `for fragment in selector_fragments`
ChainFragmentStep ==
    /\ sel_pc = "chain"
    /\ fragments # <<>>
    /\ LET polarity == Polarity(Head(fragments))
           expression == Expression(Head(fragments))
       IN IF expression = <<"all">>
          THEN /\ selected_tracks' =
                      ApplyPolarity(polarity, track_list, track_list, selected_tracks)
               /\ fragments' = Tail(fragments)
               /\ UNCHANGED <<track_list, selector, sel_pc, indexed_tracks,
                              sel_result, sel_error, sel_call, prev_result>>
               /\ UNCHANGED <<hdr_vars, job_vars, edit_vars>>
          ELSE \E fail_at \in WouldProbe(track_list) \cup {0} :
               LET acc == FilterTracks(track_list, expression, 1,
                              [cache |-> hdr_cache, calls |-> probe_calls,
                               results |-> probe_results, filtered |-> <<>>,
                               error |-> ""],
                              fail_at)
               IN /\ hdr_cache' = acc.cache
                  /\ probe_calls' = acc.calls
                  /\ probe_results' = acc.results
                  /\ UNCHANGED <<hdr_last, job_vars, edit_vars>>
                  /\ IF acc.error # ""
                     THEN Raise(acc.error)
                     ELSE /\ selected_tracks' =
                                 ApplyPolarity(polarity, track_list, acc.filtered,
                                               selected_tracks)
                          /\ fragments' = Tail(fragments)
                          /\ UNCHANGED <<track_list, selector, sel_pc, indexed_tracks,
                                         sel_result, sel_error, sel_call, prev_result>>

ChainReturn ==
    /\ sel_pc = "chain"
    /\ fragments = <<>>
    /\ Return(selected_tracks)
    /\ UNCHANGED <<hdr_vars, job_vars, edit_vars>>

\* the caller selects again from the returned list: select(select(T, s), "all")
SelectAgain ==
    /\ sel_pc = "returned"
    /\ sel_call = 1
    /\ track_list' = sel_result
    /\ selector' = <<"all">>
    /\ prev_result' = sel_result
    /\ sel_call' = 2
    /\ sel_pc' = "call"
    /\ fragments' = <<>>
    /\ indexed_tracks' = <<>>
    /\ selected_tracks' = <<>>
    /\ sel_result' = <<>>
    /\ UNCHANGED sel_error
    /\ UNCHANGED <<hdr_vars, job_vars, edit_vars>>

(***************************************************************************)
(* MuxJob.  A job is the record of its instance variables; every method is *)
(* a function from the job before the call to the job after it, with the  *)
(* exception raised in `error`.  A dict is the sequence of its items in    *)
(* insertion order; _track_options and _container_options are functions   *)
(* whose domain is the set of their keys.                                  *)
(***************************************************************************)
EmptyDict == <<>>

Item(k, v) == [key |-> k, value |-> v]

\* OptionValue: a value with its Python type; a bool by its repr
PyStr(text) == [type |-> "str", repr |-> text]
PyBool(b) == [type |-> "bool", repr |-> IF b THEN "True" ELSE "False"]

\* bool(value)
Truthy(value) == IF value.type = "bool" THEN value.repr = "True" ELSE value.repr # ""

DictKeys(d) == {d[i].key : i \in 1..Len(d)}

\* d[k]
DictGet(d, k) == d[CHOOSE i \in 1..Len(d) : d[i].key = k].value

RECURSIVE DictUpdate(_, _)
\* d.update(o): a key of d keeps its place, a new key goes to the end
DictUpdate(d, o) ==
    IF o = <<>> THEN d
    ELSE LET it == Head(o)
             d1 == IF it.key \in DictKeys(d)
                   THEN [i \in 1..Len(d) |-> IF d[i].key = it.key THEN it ELSE d[i]]
                   ELSE Append(d, it)
         IN DictUpdate(d1, Tail(o))

\* the mapping without the keys of S
Without(f, S) == [x \in (DOMAIN f) \ S |-> f[x]]

\* the mapping with x set to v
With(f, x, v) == [y \in (DOMAIN f) \cup {x} |-> IF y = x THEN v ELSE f[y]]

\* Track.__hash__ / Container.__hash__: a track with no container has no hash
Hashable(track) == IsBound(track)

\* the classes of shared dicts once the entry of track is another object
Unshare(shared, track) ==
    {c \ {track} : c \in {c \in shared : Cardinality(c \ {track}) >= 2}}

\* the tracks whose entry is the same dict object as the entry of track
SharersOf(shared, track) == UNION {c \in shared : track \in c} \cup {track}

RaiseIn(j, error) == [j EXCEPT !.error = error]

\* MuxJob.set_track_options; holders are the tracks whose entry already is
\* the dict object passed in
SetTrackOptions(j, track, options, holders) ==
    IF ~Hashable(track) THEN RaiseIn(j, "AssertionError")
    ELSE [j EXCEPT !.track_options = With(@, track, options),
                   !.shared_options =
                       Unshare(@, track)
                       \cup (IF holders = {} THEN {} ELSE {holders \cup {track}})]

\* MuxJob.update_track_options: the stored dict is updated in place
UpdateTrackOptions(j, track, options) ==
    IF ~Hashable(track) THEN RaiseIn(j, "AssertionError")
    ELSE IF track \in DOMAIN j.track_options
    THEN [j EXCEPT !.track_options =
             [t \in DOMAIN @ |->
                 IF t \in SharersOf(j.shared_options, track)
                 THEN DictUpdate(@[track], options) ELSE @[t]]]
    ELSE SetTrackOptions(j, track, options, {})

\* MuxJob.get_track_options, of a track that has a hash
GetTrackOptions(j, track) ==
    IF track \in DOMAIN j.track_options THEN j.track_options[track] ELSE EmptyDict

\* MuxJob.delete_track_options
DeleteTrackOptions(j, track) ==
    IF ~Hashable(track) THEN RaiseIn(j, "AssertionError")
    ELSE [j EXCEPT !.track_options = Without(@, {track}),
                   !.shared_options = Unshare(@, track)]

\* MuxJob.set_container_options
SetContainerOptions(j, container, options) ==
    [j EXCEPT !.container_options = With(@, container, options)]

\* MuxJob.update_container_options
UpdateContainerOptions(j, container, options) ==
    IF container \in DOMAIN j.container_options
    THEN [j EXCEPT !.container_options[container] = DictUpdate(@, options)]
    ELSE SetContainerOptions(j, container, options)

\* MuxJob.get_container_options
GetContainerOptions(j, container) ==
    IF container \in DOMAIN j.container_options
    THEN j.container_options[container] ELSE EmptyDict

\* MuxJob.delete_container_options
DeleteContainerOptions(j, container) ==
    [j EXCEPT !.container_options = Without(@, {container})]

\* MuxJob.set_output_options
SetOutputOptions(j, options) == [j EXCEPT !.output_options = options]

\* MuxJob.update_output_options
UpdateOutputOptions(j, options) ==
    [j EXCEPT !.output_options = DictUpdate(@, options)]

\* MuxJob.get_output_options
GetOutputOptions(j) == j.output_options

\* MuxJob._is_container_referenced
IsContainerReferenced(j, container) ==
    \E i \in 1..Len(j.track_order) : j.track_order[i].container = container

\* MuxJob._is_track_referenced
IsTrackReferenced(j, track) == InList(track, j.track_order)

\* append_track raising only after it has appended
AppendTrackCheckedLate(j, track, options, holders) ==
    LET appended == [j EXCEPT !.track_order = Append(@, track)]
        stored == IF options # EmptyDict
                  THEN SetTrackOptions(appended, track, options, holders)
                  ELSE appended
    IN IF IsTrackReferenced(j, track)
       THEN RaiseIn(stored, "MuxDuplicateTrackFound")
       ELSE stored

\* MuxJob.append_track; holders as in SetTrackOptions
AppendTrack(j, track, options, holders) ==
    IF IsTrackReferenced(j, track)
    THEN RaiseIn(j, "MuxDuplicateTrackFound")
    ELSE LET appended == [j EXCEPT !.track_order = Append(@, track)]
         IN IF options # EmptyDict
            THEN SetTrackOptions(appended, track, options, holders)
            ELSE appended

RECURSIVE AppendEach(_, _, _, _, _)
\* for track in container.tracks: self.append_track(track, common_track_options)
AppendEach(j, tracks, i, common, holders) ==
    IF i > Len(tracks) THEN j
    ELSE LET next == AppendTrack(j, tracks[i], common, holders)
         IN IF next.error # "" THEN next
            ELSE AppendEach(next, tracks, i + 1, common,
                            IF common # EmptyDict THEN holders \cup {tracks[i]}
                            ELSE holders)

\* append_all_tracks leaving the job as it was when a track is a duplicate
AppendAllTracksAtomic(j, container, options, common_track_options) ==
    LET done == AppendEach(IF options # EmptyDict
                           THEN SetContainerOptions(j, container, options)
                           ELSE j,
                           ContainerTracksOf(container), 1, common_track_options, {})
    IN IF done.error # "" THEN RaiseIn(j, done.error) ELSE done

\* MuxJob.append_all_tracks
AppendAllTracks(j, container, options, common_track_options) ==
    AppendEach(IF options # EmptyDict
               THEN SetContainerOptions(j, container, options)
               ELSE j,
               ContainerTracksOf(container), 1, common_track_options, {})

\* list.insert(index, x)
PyInsert(list, index, x) ==
    LET n == Len(list)
        k == IF index < 0 THEN (IF index + n < 0 THEN 0 ELSE index + n)
             ELSE (IF index > n THEN n ELSE index)
    IN SubSeq(list, 1, k) \o <<x>> \o SubSeq(list, k + 1, n)

\* insert_track without the check of the track order
InsertTrackUnchecked(j, index, track) ==
    [j EXCEPT !.track_order = PyInsert(@, index, track)]

\* MuxJob.insert_track
InsertTrack(j, index, track) ==
    IF IsTrackReferenced(j, track)
    THEN RaiseIn(j, "MuxDuplicateTrackFound")
    ELSE [j EXCEPT !.track_order = PyInsert(@, index, track)]

\* list.remove(x), x being in the list
PyRemove(list, x) ==
    LET k == CHOOSE k \in 1..Len(list) :
                 list[k] = x /\ \A m \in 1..(k - 1) : list[m] # x
    IN SubSeq(list, 1, k - 1) \o SubSeq(list, k + 1, Len(list))

\* remove_track looking for the tracks of the container before it removes
RemoveTrackLooksFirst(j, track, cleanup_track_options, cleanup_container_options) ==
    IF ~IsTrackReferenced(j, track)
    THEN RaiseIn(j, "MuxTrackNotFound")
    ELSE LET removed == [j EXCEPT !.track_order = PyRemove(@, track)]
             cleaned == IF cleanup_track_options
                        THEN DeleteTrackOptions(removed, track)
                        ELSE removed
         IN IF cleaned.error # "" THEN cleaned
            ELSE IF /\ IsBound(track)
                    /\ cleanup_container_options
                    /\ ~IsContainerReferenced(j, track.container)
            THEN DeleteContainerOptions(cleaned, track.container)
            ELSE cleaned

\* MuxJob.remove_track
RemoveTrack(j, track, cleanup_track_options, cleanup_container_options) ==
    IF ~IsTrackReferenced(j, track)
    THEN RaiseIn(j, "MuxTrackNotFound")
    ELSE LET removed == [j EXCEPT !.track_order = PyRemove(@, track)]
             cleaned == IF cleanup_track_options
                        THEN DeleteTrackOptions(removed, track)
                        ELSE removed
         IN IF cleaned.error # "" THEN cleaned
            ELSE IF /\ IsBound(track)
                    /\ cleanup_container_options
                    /\ ~IsContainerReferenced(cleaned, track.container)
            THEN DeleteContainerOptions(cleaned, track.container)
            ELSE cleaned

(***************************************************************************)
(* Command generation.  An argument is the string the code builds.         *)
(***************************************************************************)
\* _option_formatters: the options of each formatter class
StringOptions == {"Title", "Name", "Language", "Tags", "Charset"}
BooleanOptions ==
    {"Default", "Enabled", "Forced", "HearingImpaired", "VisualImpaired",
     "TextDescriptions", "OriginalLanguage", "Commentary"}
UnaryOptions ==
    {"NoChapters", "NoAttachments", "NoGlobalTags", "NoTrackTags", "ReduceToCore"}

\* _option_formatters: the command line option of each formatter
OptionFlag(option) ==
    CASE option = "Title" -> "--title"
      [] option = "NoChapters" -> "--no-chapters"
      [] option = "NoAttachments" -> "--no-attachments"
      [] option = "NoGlobalTags" -> "--no-global-tags"
      [] option = "NoTrackTags" -> "--no-track-tags"
      [] option = "Name" -> "--track-name"
      [] option = "Language" -> "--language"
      [] option = "Tags" -> "--tags"
      [] option = "Charset" -> "--sub-charset"
      [] option = "Default" -> "--default-track-flag"
      [] option = "Enabled" -> "--track-enabled-flag"
      [] option = "Forced" -> "--forced-display-flag"
      [] option = "HearingImpaired" -> "--hearing-impaired-flag"
      [] option = "VisualImpaired" -> "--visual-impaired-flag"
      [] option = "TextDescriptions" -> "--text-descriptions-flag"
      [] option = "OriginalLanguage" -> "--original-flag"
      [] option = "Commentary" -> "--commentary-flag"
      [] option = "ReduceToCore" -> "--reduce-to-core"

\* track=None of _format_option
NoTrack == [container |-> NoContainer, index |-> -1]

\* what a generator gave: the exception it raised or the arguments it yielded
Yielded(args) == [error |-> "", args |-> args]
Failed(error) == [error |-> error, args |-> <<>>]

\* str(container.format.filename) and str(self.output)
FileName(container) == container \o ".mkv"
OutputPath == "out.mkv"

\* f"{track.index}:{value}" of the string formatter, f"{track.index}:{int(value)}"
\* of the boolean formatter
IndexedValue(track, text) == ToString(track.index) \o ":" \o text
IntOfBool(value) == IF value.repr = "True" THEN "1" ELSE "0"

\* MuxJob._format_option with the format method of the option's formatter
FormatOption(option, value, track) ==
    IF option \notin StringOptions \cup BooleanOptions \cup UnaryOptions
    THEN Failed("RuntimeError")
    ELSE IF option \in UnaryOptions THEN Yielded(<<OptionFlag(option)>>)
    ELSE IF option \in BooleanOptions
    THEN IF value.type # "bool" \/ track = NoTrack THEN Failed("AssertionError")
         ELSE Yielded(<<OptionFlag(option), IndexedValue(track, IntOfBool(value))>>)
    ELSE IF value.type # "str" \/ track = NoTrack THEN Failed("AssertionError")
         ELSE Yielded(<<OptionFlag(option), IndexedValue(track, value.repr)>>)

\* one generator after another: the first exception ends the generation
Then(first, second) ==
    IF first.error # "" THEN first
    ELSE IF second.error # "" THEN second
    ELSE Yielded(first.args \o second.args)

RECURSIVE FormatItems(_, _)
\* for option_type, option_value in options.items(): yield from _format_option
FormatItems(options, track) ==
    IF options = <<>> THEN Yielded(<<>>)
    ELSE Then(FormatOption(Head(options).key, Head(options).value, track),
              FormatItems(Tail(options), track))

\* MuxJob._generate_container_arguments
GenerateContainerArguments(j, container) ==
    Then(FormatItems(GetContainerOptions(j, container), NoTrack),
         Yielded(<<FileName(container)>>))

\* the options of a dict in the order of _option_formatters
InFormatterOrder(options) ==
    LET formatters == <<"Title", "NoChapters", "NoAttachments", "NoGlobalTags",
                        "NoTrackTags", "Name", "Language", "Tags", "Charset",
                        "Default", "Enabled", "Forced", "HearingImpaired",
                        "VisualImpaired", "TextDescriptions", "OriginalLanguage",
                        "Commentary", "ReduceToCore">>
        stored == SelectSeq(formatters, LAMBDA k : k \in DictKeys(options))
    IN [i \in 1..Len(stored) |-> Item(stored[i], DictGet(options, stored[i]))]

\* the track arguments generated in the order of _option_formatters
GenerateTrackArgumentsSorted(j, track) ==
    FormatItems(InFormatterOrder(GetTrackOptions(j, track)), track)

\* MuxJob._generate_track_arguments
GenerateTrackArguments(j, track) == FormatItems(GetTrackOptions(j, track), track)

\* MuxJob._generate_output_arguments
GenerateOutputArguments(j) ==
    Then(Yielded(<<"--output", OutputPath>>),
         FormatItems(GetOutputOptions(j), NoTrack))

RECURSIVE Join(_, _)
\* sep.join(texts)
Join(texts, sep) ==
    IF texts = <<>> THEN ""
    ELSE IF Len(texts) = 1 THEN texts[1]
    ELSE texts[1] \o sep \o Join(Tail(texts), sep)

RECURSIVE FirstAppearancesReversed(_, _)
\* the containers, the one that appeared last first
FirstAppearancesReversed(order, seen) ==
    IF order = <<>> THEN seen
    ELSE FirstAppearancesReversed(Tail(order),
                                  IF InList(Head(order).container, seen) THEN seen
                                  ELSE <<Head(order).container>> \o seen)

RECURSIVE FirstAppearances(_, _)
\* the keys of tracks_by_container in insertion order, container_order
FirstAppearances(order, seen) ==
    IF order = <<>> THEN seen
    ELSE FirstAppearances(Tail(order),
                          IF InList(Head(order).container, seen) THEN seen
                          ELSE Append(seen, Head(order).container))

\* list.index(x)
PyListIndex(list, x) == (CHOOSE k \in 1..Len(list) :
                             list[k] = x /\ \A m \in 1..(k - 1) : list[m] # x) - 1

\* _container_options_for_type, in the order of its keys
BucketTypes == <<Video, Audio, Subtitle>>
SelectOption(type) ==
    CASE type = Video -> "--video-tracks"
      [] type = Audio -> "--audio-tracks"
      [] type = Subtitle -> "--subtitle-tracks"
ExcludeOption(type) ==
    CASE type = Video -> "--no-video"
      [] type = Audio -> "--no-audio"
      [] type = Subtitle -> "--no-subtitles"

RECURSIVE TracksArguments(_, _)
\* for track in tracks: yield from self._generate_track_arguments(track)
TracksArguments(j, tracks) ==
    IF tracks = <<>> THEN Yielded(<<>>)
    ELSE Then(GenerateTrackArguments(j, Head(tracks)), TracksArguments(j, Tail(tracks)))

\* the arguments of one track type, the tracks named by their places in the
\* track order of the job
BucketArgumentsByPlace(j, container, type) ==
    LET places == SelectSeq([i \in 1..Len(j.track_order) |-> i],
                            LAMBDA i : /\ j.track_order[i].container = container
                                       /\ TypeOf(j.track_order[i]) = type)
        tracks == [k \in 1..Len(places) |-> j.track_order[places[k]]]
    IN IF tracks = <<>> THEN Yielded(<<ExcludeOption(type)>>)
       ELSE Then(Yielded(<<SelectOption(type),
                           Join([k \in 1..Len(places) |-> ToString(places[k] - 1)], ",")>>),
                 TracksArguments(j, tracks))

\* the arguments of one track type of one container
BucketArguments(j, container, type) ==
    LET tracks == SelectSeq(j.track_order,
                            LAMBDA t : t.container = container /\ TypeOf(t) = type)
    IN IF tracks = <<>> THEN Yielded(<<ExcludeOption(type)>>)
       ELSE Then(Yielded(<<SelectOption(type),
                           Join([i \in 1..Len(tracks) |-> ToString(tracks[i].index)], ",")>>),
                 TracksArguments(j, tracks))

RECURSIVE BucketsArguments(_, _, _)
BucketsArguments(j, container, types) ==
    IF types = <<>> THEN Yielded(<<>>)
    ELSE Then(BucketArguments(j, container, Head(types)),
              BucketsArguments(j, container, Tail(types)))

RECURSIVE SourcesArguments(_, _)
\* for container, tracks in tracks_by_container.items()
SourcesArguments(j, containers) ==
    IF containers = <<>> THEN Yielded(<<>>)
    ELSE Then(Then(BucketsArguments(j, Head(containers), BucketTypes),
                   GenerateContainerArguments(j, Head(containers))),
              SourcesArguments(j, Tail(containers)))

\* the '--track-order' argument
TrackOrderArguments(j) ==
    LET container_order == FirstAppearances(j.track_order, <<>>)
        stream_order_pairs ==
            [i \in 1..Len(j.track_order) |->
                ToString(PyListIndex(container_order, j.track_order[i].container))
                \o ":" \o ToString(j.track_order[i].index)]
    IN Yielded(<<"--track-order", Join(stream_order_pairs, ",")>>)

\* the generation taking the tracks off the job as it goes
GenerateCommandArgumentsConsuming(j) ==
    LET grouping == IF \E i \in 1..Len(j.track_order) : ~IsBound(j.track_order[i])
                    THEN Failed("TrackNoParentContainer") ELSE Yielded(<<>>)
        all == Then(GenerateOutputArguments(j),
               Then(grouping,
               Then(SourcesArguments(j, FirstAppearances(j.track_order, <<>>)),
                    TrackOrderArguments(j))))
    IN [job |-> [j EXCEPT !.error = all.error,
                          !.track_order = IF all.error = "" THEN <<>> ELSE @],
        args |-> all.args]

\* list(MuxJob._generate_command_arguments()): the job after it and the list
GenerateCommandArguments(j) ==
    LET grouping == IF \E i \in 1..Len(j.track_order) : ~IsBound(j.track_order[i])
                    THEN Failed("TrackNoParentContainer") ELSE Yielded(<<>>)
        all == Then(GenerateOutputArguments(j),
               Then(grouping,
               Then(SourcesArguments(j, FirstAppearances(j.track_order, <<>>)),
                    TrackOrderArguments(j))))
    IN [job |-> [j EXCEPT !.error = all.error], args |-> all.args]

(***************************************************************************)
(* Strings                                                                 *)
(***************************************************************************)
UpperCase == <<"A", "B", "C", "D", "E", "F", "G", "H", "I", "J", "K", "L", "M",
               "N", "O", "P", "Q", "R", "S", "T", "U", "V", "W", "X", "Y", "Z">>
LowerCase == <<"a", "b", "c", "d", "e", "f", "g", "h", "i", "j", "k", "l", "m",
               "n", "o", "p", "q", "r", "s", "t", "u", "v", "w", "x", "y", "z">>

LowerChar(ch) ==
    IF \E i \in 1..Len(UpperCase) : UpperCase[i] = ch
    THEN LowerCase[CHOOSE i \in 1..Len(UpperCase) : UpperCase[i] = ch]
    ELSE ch

RECURSIVE Lower(_)
\* str.lower()
Lower(text) ==
    IF Len(text) = 0 THEN ""
    ELSE LowerChar(SubSeq(text, 1, 1)) \o Lower(SubSeq(text, 2, Len(text)))

\* part in text
Contains(text, part) ==
    \E i \in 1..(Len(text) - Len(part) + 1) : SubSeq(text, i, i + Len(part) - 1) = part

(***************************************************************************)
(* MuxJob.auto_assign_track_options and its passes                         *)
(***************************************************************************)
\* dict.get(key, default), the default a value as well
DictGetOr(d, k, default) == IF k \in DictKeys(d) THEN DictGet(d, k) ELSE default

\* d[k] = v
DictSet(d, k, v) == DictUpdate(d, <<Item(k, v)>>)

\* str(current_options.get(TrackOption.Name, track.name) or "").lower()
EffectiveName(options, track) ==
    LET value == DictGetOr(options, "Name", PyStr(Attr(track).name))
    IN Lower(IF Truthy(value) THEN value.repr ELSE "")

\* the flags _infer_flags_from_name sets for a name
InferredOptions(name) ==
    LET forced == IF Contains(name, "forced")
                  THEN <<Item("Forced", PyBool(TRUE))>> ELSE <<>>
        hi == IF Contains(name, "sdh")
              THEN <<Item("HearingImpaired", PyBool(TRUE))>> ELSE <<>>
        text == IF Contains(name, "descriptive") \/ Contains(name, "descriptions")
                THEN <<Item("TextDescriptions", PyBool(TRUE))>> ELSE <<>>
        commentary == IF Contains(name, "commentary")
                      THEN <<Item("Commentary", PyBool(TRUE))>> ELSE <<>>
    IN forced \o hi \o text \o commentary

RECURSIVE InferEach(_, _)
\* the loop of _infer_flags_from_name from the i-th track on
InferEach(j, i) ==
    IF i > Len(j.track_order) THEN j
    ELSE LET track == j.track_order[i]
         IN IF ~Hashable(track) THEN RaiseIn(j, "AssertionError")
            ELSE InferEach(
                    UpdateTrackOptions(
                        j, track,
                        InferredOptions(EffectiveName(GetTrackOptions(j, track), track))),
                    i + 1)

\* MuxJob._infer_flags_from_name
InferFlagsFromName(j) == InferEach(j, 1)

\* track.language or "und"
PartitionLanguage(track) ==
    IF Attr(track).language = "" THEN "und" ELSE Attr(track).language

RECURSIVE PartitionKeys(_, _)
\* the (language, type) lists of tracks_by_language_by_type in the order
\* the two loops over .items() visit them
PartitionKeys(order, seen) ==
    IF order = <<>> THEN seen
    ELSE LET key == <<PartitionLanguage(Head(order)), TypeOf(Head(order))>>
             language == key[1]
             last == IF \E i \in 1..Len(seen) : seen[i][1] = language
                     THEN CHOOSE i \in 1..Len(seen) :
                              /\ seen[i][1] = language
                              /\ \A k \in (i + 1)..Len(seen) : seen[k][1] # language
                     ELSE Len(seen)
         IN PartitionKeys(Tail(order),
                          IF InList(key, seen) THEN seen
                          ELSE SubSeq(seen, 1, last) \o <<key>>
                               \o SubSeq(seen, last + 1, Len(seen)))

\* the tracks of one language and type, in the track order
PartitionTracks(order, key) ==
    SelectSeq(order, LAMBDA t : <<PartitionLanguage(t), TypeOf(t)>> = key)

\* bool(current_options.get(option, flag))
EffectiveFlag(options, option, flag) == Truthy(DictGetOr(options, option, PyBool(flag)))

\* the track is no candidate for the default flag
Disqualified(options, track) ==
    \/ EffectiveFlag(options, "Forced", TrackFlags(track).forced)
    \/ EffectiveFlag(options, "HearingImpaired", TrackFlags(track).hearing_impaired)
    \/ EffectiveFlag(options, "Commentary", TrackFlags(track).commentary)
    \/ Contains(EffectiveName(options, track), "compatibility")

\* a hearing impaired or compatibility track, the alternate of its list
AlternateKind(options, track) ==
    \/ EffectiveFlag(options, "HearingImpaired", TrackFlags(track).hearing_impaired)
    \/ Contains(EffectiveName(options, track), "compatibility")

RECURSIVE AssignPartition(_, _, _, _, _)
\* the loop over the tracks of one language and type with what follows it;
\* alternate is NoTrack for None
AssignPartition(j, tracks, i, default_found, alternate) ==
    IF i > Len(tracks)
    THEN IF ~default_found /\ alternate # NoTrack
         THEN UpdateTrackOptions(j, alternate, <<Item("Default", PyBool(TRUE))>>)
         ELSE IF ~default_found THEN RaiseIn(j, "AssertionError")
         ELSE j
    ELSE LET track == tracks[i]
             current_options == GetTrackOptions(j, track)
             disqualified == IF Disqualified(current_options, track)
                             THEN <<Item("Default", PyBool(FALSE))>> ELSE <<>>
             is_alternate == AlternateKind(current_options, track) /\ alternate = NoTrack
             new_options == IF is_alternate THEN disqualified
                            ELSE DictSet(disqualified, "Default", PyBool(~default_found))
         IN IF ~Hashable(track) THEN RaiseIn(j, "AssertionError")
            ELSE AssignPartition(UpdateTrackOptions(j, track, new_options), tracks, i + 1,
                                 default_found \/ ~is_alternate,
                                 IF is_alternate THEN track ELSE alternate)

RECURSIVE AssignPartitions(_, _)
AssignPartitions(j, keys) ==
    IF keys = <<>> \/ j.error # "" THEN j
    ELSE AssignPartitions(
            AssignPartition(j, PartitionTracks(j.track_order, Head(keys)), 1, FALSE, NoTrack),
            Tail(keys))

\* MuxJob._assign_default_flags
AssignDefaultFlags(j) == AssignPartitions(j, PartitionKeys(j.track_order, <<>>))

\* str(current_options.get(option, tag) or "")
EffectiveText(options, option, tag) ==
    LET value == DictGetOr(options, option, PyStr(tag))
    IN IF Truthy(value) THEN value.repr ELSE ""

\* new_options of _assign_sensible_names for one track
SensibleName(j, track, multiple_video_tracks) ==
    LET current_options == GetTrackOptions(j, track)
        name == EffectiveText(current_options, "Name", Attr(track).name)
        language == EffectiveText(current_options, "Language", Attr(track).language)
        is_default == EffectiveFlag(current_options, "Default", TrackFlags(track).default)
        is_hi == EffectiveFlag(current_options, "HearingImpaired",
                               TrackFlags(track).hearing_impaired)
        is_commentary == EffectiveFlag(current_options, "Commentary",
                                       TrackFlags(track).commentary)
        video == IF TypeOf(track) = Video /\ ~multiple_video_tracks
                 THEN <<Item("Name", PyStr(""))>> ELSE <<>>
        cleared == IF TypeOf(track) \in {Audio, Subtitle} /\ is_default /\ language # ""
                   THEN DictSet(video, "Name", PyStr("")) ELSE video
        commentary == IF TypeOf(track) = Audio /\ is_commentary /\ name = ""
                      THEN DictSet(cleared, "Name", PyStr("Commentary")) ELSE cleared
    IN IF TypeOf(track) = Subtitle /\ is_hi
       THEN DictSet(commentary, "Name", PyStr("SDH")) ELSE commentary

RECURSIVE NameEach(_, _, _)
\* the loop of _assign_sensible_names from the i-th track on
NameEach(j, i, multiple_video_tracks) ==
    IF i > Len(j.track_order) THEN j
    ELSE LET track == j.track_order[i]
         IN IF ~Hashable(track) THEN RaiseIn(j, "AssertionError")
            ELSE NameEach(UpdateTrackOptions(j, track,
                                             SensibleName(j, track, multiple_video_tracks)),
                          i + 1, multiple_video_tracks)

\* MuxJob._assign_sensible_names
AssignSensibleNames(j) ==
    NameEach(j, 1,
             Cardinality({i \in 1..Len(j.track_order) : TypeOf(j.track_order[i]) = Video}) > 1)

\* auto_assign_track_options assigning the names whatever it is called with
AutoAssignTrackOptionsNaming(j, infer_flags_from_name, assign_sensible_names) ==
    LET inferred == IF infer_flags_from_name THEN InferFlagsFromName(j) ELSE j
        flagged == IF inferred.error # "" THEN inferred ELSE AssignDefaultFlags(inferred)
    IN IF flagged.error # "" THEN flagged ELSE AssignSensibleNames(flagged)

\* MuxJob.auto_assign_track_options
AutoAssignTrackOptions(j, infer_flags_from_name, assign_sensible_names) ==
    LET inferred == IF infer_flags_from_name THEN InferFlagsFromName(j) ELSE j
        flagged == IF inferred.error # "" THEN inferred ELSE AssignDefaultFlags(inferred)
    IN IF flagged.error # "" \/ ~assign_sensible_names THEN flagged
       ELSE AssignSensibleNames(flagged)

\* the job as the record the methods work on, the call starting with no
\* exception raised
Job ==
    [track_order |-> track_order, track_options |-> track_options,
     container_options |-> container_options, shared_options |-> shared_options,
     output_options |-> output_options, error |-> ""]

\* nothing given back and no tool run
NoOutput == [call |-> "", args |-> <<>>, tool |-> "", container |-> NoContainer]

\* the job after a call
Becomes(j) ==
    /\ track_order' = j.track_order
    /\ track_options' = j.track_options
    /\ container_options' = j.container_options
    /\ shared_options' = j.shared_options
    /\ job_error' = j.error
    /\ output_options' = j.output_options
    /\ job_out' = NoOutput
    /\ UNCHANGED <<job_passes, sel_vars, hdr_vars, edit_vars>>

\* the tracks and containers the calls of Spec are made with
JobContainers == {"extras", "clip"}
JobTracks == UNION {Range(ContainerTracksOf(c)) : c \in JobContainers \cup {NoContainer}}

\* the option dicts the calls are made with; EmptyDict also stands for None
TrackOptionChoices == {EmptyDict, <<Item("Name", PyStr("Main"))>>}
ContainerOptionChoices == {EmptyDict, <<Item("NoChapters", PyBool(TRUE))>>}

CallAppendTrack ==
    \E t \in JobTracks, o \in TrackOptionChoices : Becomes(AppendTrack(Job, t, o, {}))

CallAppendAllTracks ==
    \E c \in JobContainers, co \in ContainerOptionChoices, o \in TrackOptionChoices :
        Becomes(AppendAllTracks(Job, c, co, o))

\* the indexes insert_track is called with: each place of the list, from
\* either end, and one beyond
InsertIndexes == (0 - Len(track_order) - 1)..(Len(track_order) + 1)

CallInsertTrack ==
    \E t \in JobTracks, i \in InsertIndexes : Becomes(InsertTrack(Job, i, t))

CallRemoveTrack ==
    \E t \in JobTracks, ct \in BOOLEAN, cc \in BOOLEAN :
        Becomes(RemoveTrack(Job, t, ct, cc))

\* the dicts the options are set and updated with
Stored(choices) == choices \ {EmptyDict}

CallSetTrackOptions ==
    \E t \in JobTracks, o \in Stored(TrackOptionChoices) :
        Becomes(SetTrackOptions(Job, t, o, {}))

CallUpdateTrackOptions ==
    \E t \in JobTracks, o \in Stored(TrackOptionChoices) :
        Becomes(UpdateTrackOptions(Job, t, o))

CallDeleteTrackOptions ==
    \E t \in JobTracks : Becomes(DeleteTrackOptions(Job, t))

CallSetContainerOptions ==
    \E c \in JobContainers, o \in Stored(ContainerOptionChoices) :
        Becomes(SetContainerOptions(Job, c, o))

CallUpdateContainerOptions ==
    \E c \in JobContainers, o \in Stored(ContainerOptionChoices) :
        Becomes(UpdateContainerOptions(Job, c, o))

CallDeleteContainerOptions ==
    \E c \in JobContainers : Becomes(DeleteContainerOptions(Job, c))

\* the job after a call that gives something back or runs a tool
Gives(j, out) ==
    /\ track_order' = j.track_order
    /\ track_options' = j.track_options
    /\ container_options' = j.container_options
    /\ shared_options' = j.shared_options
    /\ job_error' = j.error
    /\ output_options' = j.output_options
    /\ job_out' = out
    /\ UNCHANGED <<job_passes, sel_vars, hdr_vars, edit_vars>>

\* arguments = list(self._generate_command_arguments())
CallGenerateCommandArguments ==
    LET r == GenerateCommandArguments(Job)
    IN Gives(r.job, [NoOutput EXCEPT !.call = "generate", !.args = r.args])

(***************************************************************************)
(* The calls that run a tool: MuxJob.run, Container.extract_tracks,        *)
(* Container.extract_chapters, Track.extract and EditJob                   *)
(***************************************************************************)
\* ContainerFormat.format_name, as ffprobe names the formats
FormatName(container) ==
    CASE container = "clip" -> "mov,mp4,m4a,3gp,3g2,mj2"
      [] OTHER -> "matroska,webm"

\* the containers with "matroska" in container.format.format_name.lower()
MatroskaFormat ==
    {c \in Containers : Contains(Lower(FormatName(c)), "matroska")}

\* the test of Container._assert_is_matroska and of EditJob.__init__
IsMatroska(container) == container \in MatroskaFormat

\* the tool ran, and returned or exited with an error the caller gets
Invoke(j, tool_ok) == IF tool_ok THEN j ELSE RaiseIn(j, "ErrorReturnCode")

\* what a call that reaches its tool, or fails before, gives
Ran(j, call, container, args, tool) ==
    [job |-> j,
     out |-> [call |-> call, args |-> args, container |-> container,
              tool |-> IF j.error \in {"", "ErrorReturnCode"} THEN tool ELSE ""]]

\* run without the check of the number of tracks
RunUnchecked(j, tool_ok) ==
    LET r == GenerateCommandArguments(j)
    IN IF r.job.error # "" THEN Ran(r.job, "run", NoContainer, <<>>, "")
       ELSE Ran(Invoke(r.job, tool_ok), "run", NoContainer, r.args, "mkvmerge")

\* MuxJob.run
Run(j, tool_ok) ==
    IF ~(Len(j.track_order) > 0)
    THEN Ran(RaiseIn(j, "AssertionError"), "run", NoContainer, <<>>, "")
    ELSE LET r == GenerateCommandArguments(j)
         IN IF r.job.error # "" THEN Ran(r.job, "run", NoContainer, <<>>, "")
            ELSE Ran(Invoke(r.job, tool_ok), "run", NoContainer, r.args, "mkvmerge")

\* Container.extract_tracks for one (track, path) pair
ExtractTracks(j, container, track, tool_ok) ==
    IF ~IsMatroska(container)
    THEN Ran(RaiseIn(j, "NotMatroskaContainer"), "extract_tracks", container, <<>>, "")
    ELSE IF track.container # container
    THEN Ran(RaiseIn(j, "AssertionError"), "extract_tracks", container, <<>>, "")
    ELSE Ran(Invoke(j, tool_ok), "extract_tracks", container,
             <<FileName(container), "tracks", IndexedValue(track, "track.bin")>>,
             "mkvextract")

\* Track.extract
TrackExtract(j, track, tool_ok) ==
    IF ~IsBound(track)
    THEN Ran(RaiseIn(j, "TrackNoParentContainer"), "extract", NoContainer, <<>>, "")
    ELSE ExtractTracks(j, track.container, track, tool_ok)

\* Container.extract_chapters, simple=False
ExtractChapters(j, container, tool_ok) ==
    IF ~IsMatroska(container)
    THEN Ran(RaiseIn(j, "NotMatroskaContainer"), "extract_chapters", container, <<>>, "")
    ELSE Ran(Invoke(j, tool_ok), "extract_chapters", container,
             <<"chapters.xml", "chapters", "">>, "mkvextract")

\* EditJob(container).run(), no change asked for
EditJobRun(j, container, tool_ok) ==
    IF ~IsMatroska(container)
    THEN Ran(RaiseIn(j, "AssertionError"), "edit", container, <<>>, "")
    ELSE Ran(Invoke(j, tool_ok), "edit", container, <<FileName(container)>>,
             "mkvpropedit")

CallRun ==
    \E ok \in BOOLEAN : LET r == Run(Job, ok) IN Gives(r.job, r.out)

CallExtractTracks ==
    \E c \in JobContainers, t \in JobTracks, ok \in BOOLEAN :
        LET r == ExtractTracks(Job, c, t, ok) IN Gives(r.job, r.out)

CallTrackExtract ==
    \E t \in JobTracks, ok \in BOOLEAN :
        LET r == TrackExtract(Job, t, ok) IN Gives(r.job, r.out)

CallExtractChapters ==
    \E c \in JobContainers, ok \in BOOLEAN :
        LET r == ExtractChapters(Job, c, ok) IN Gives(r.job, r.out)

CallEditJobRun ==
    \E c \in JobContainers, ok \in BOOLEAN :
        LET r == EditJobRun(Job, c, ok) IN Gives(r.job, r.out)

OutputOptionChoices == {EmptyDict, <<Item("Title", PyStr("Movie"))>>}

CallSetOutputOptions ==
    \E o \in OutputOptionChoices : Becomes(SetOutputOptions(Job, o))

CallUpdateOutputOptions ==
    \E o \in Stored(OutputOptionChoices) : Becomes(UpdateOutputOptions(Job, o))

(***************************************************************************)
(* EditJob                                                                 *)
(***************************************************************************)
\* _PropertyAction
Add == "Add"
Set == "Set"
Delete == "Delete"

\* no _chapter_action, no _container_title_action
NoAction == [action |-> "None", value |-> "None"]

\* one entry of a list of _track_actions
TrackAction(name, action, value) == [name |-> name, action |-> action, value |-> value]

\* _track_selector
TrackSelector(track) == "track:" \o ToString(track.index + 1)

\* _generate_property_arguments
GeneratePropertyArguments(action, property_name, property_value) ==
    CASE action = Add -> <<"--add", property_name \o "=" \o property_value>>
      [] action = Set -> <<"--set", property_name \o "=" \o property_value>>
      [] action = Delete -> <<"--delete", property_name>>

\* the EditJob as the record its methods work on
EditJob ==
    [track_actions |-> track_actions, tag_actions |-> tag_actions,
     chapter_action |-> chapter_action,
     container_title_action |-> container_title_action, error |-> ""]

\* a change of a track that takes the place of an earlier change of the
\* same property
ModifyTrackPropertyMerging(e, track, property, action, value) ==
    IF ~Hashable(track) THEN RaiseIn(e, "AssertionError")
    ELSE LET listed == IF track \in DictKeys(e.track_actions)
                       THEN e.track_actions
                       ELSE Append(e.track_actions, Item(track, <<>>))
             merged == SelectSeq(DictGet(listed, track), LAMBDA a : a.name # property)
         IN [e EXCEPT !.track_actions =
                DictUpdate(listed,
                           <<Item(track, Append(merged, TrackAction(property, action, value)))>>)]

\* EditJob._modify_track_property
ModifyTrackProperty(e, track, property, action, value) ==
    IF ~Hashable(track) THEN RaiseIn(e, "AssertionError")
    ELSE LET listed == IF track \in DictKeys(e.track_actions)
                       THEN e.track_actions
                       ELSE Append(e.track_actions, Item(track, <<>>))
         IN [e EXCEPT !.track_actions =
                DictUpdate(listed,
                           <<Item(track, Append(DictGet(listed, track),
                                                TrackAction(property, action, value)))>>)]

\* EditJob._modify_track_flag
ModifyTrackFlag(e, track, flag, action, value) ==
    IF ~Hashable(track) THEN RaiseIn(e, "AssertionError")
    ELSE LET listed == IF track \in DictKeys(e.track_actions)
                       THEN e.track_actions
                       ELSE Append(e.track_actions, Item(track, <<>>))
         IN [e EXCEPT !.track_actions =
                DictUpdate(listed,
                           <<Item(track, Append(DictGet(listed, track),
                                                TrackAction(flag, action, value)))>>)]

\* EditJob.set_track_flag, delete_track_flag
SetTrackFlag(e, track, flag, value) == ModifyTrackFlag(e, track, flag, Set, value)
DeleteTrackFlag(e, track, flag) == ModifyTrackFlag(e, track, flag, Delete, "None")

\* EditJob.set_track_property, add_track_property, delete_track_property
SetTrackProperty(e, track, property, value) ==
    ModifyTrackProperty(e, track, property, Set, value)
AddTrackProperty(e, track, property, value) ==
    ModifyTrackProperty(e, track, property, Add, value)
DeleteTrackProperty(e, track, property) ==
    ModifyTrackProperty(e, track, property, Delete, "None")

\* EditJob.set_tags with a TagSelector, delete_chapters, set_container_title
SetTags(e, selector_name, path) ==
    [e EXCEPT !.tag_actions =
        Append(@, [action |-> Set, selector |-> selector_name, path |-> path])]
DeleteChapters(e) == [e EXCEPT !.chapter_action = [action |-> Delete, value |-> "None"]]
SetContainerTitle(e, title) ==
    [e EXCEPT !.container_title_action = [action |-> Set, value |-> title]]

\* EditJob._generate_tag_arguments
GenerateTagArguments(e) ==
    LET RECURSIVE each(_)
        each(actions) ==
            IF actions = <<>> THEN <<>>
            ELSE (IF Head(actions).action = Set
                  THEN <<"--tags", Head(actions).selector \o ":" \o Head(actions).path>>
                  ELSE <<"--tags", Head(actions).selector \o ":">>)
                 \o each(Tail(actions))
    IN each(e.tag_actions)

\* EditJob._generate_chapter_arguments
GenerateChapterArguments(e) ==
    IF e.chapter_action = NoAction THEN <<>>
    ELSE <<"--chapters",
           IF e.chapter_action.action = Set THEN e.chapter_action.value ELSE "">>

\* EditJob._generate_container_arguments
GenerateTitleArguments(e) ==
    IF e.container_title_action = NoAction THEN <<>>
    ELSE <<"--edit", "info">>
         \o GeneratePropertyArguments(e.container_title_action.action, "title",
                                      e.container_title_action.value)

RECURSIVE GenerateActionsArguments(_)
\* for name, action, value in actions_list
GenerateActionsArguments(actions_list) ==
    IF actions_list = <<>> THEN <<>>
    ELSE GeneratePropertyArguments(Head(actions_list).action, Head(actions_list).name,
                                   Head(actions_list).value)
         \o GenerateActionsArguments(Tail(actions_list))

RECURSIVE GenerateEditTrackArguments(_)
\* EditJob._generate_track_arguments, over the items of _track_actions
GenerateEditTrackArguments(items) ==
    IF items = <<>> THEN <<>>
    ELSE <<"--edit", TrackSelector(Head(items).key)>>
         \o GenerateActionsArguments(Head(items).value)
         \o GenerateEditTrackArguments(Tail(items))

\* the container the EditJob was made for
EditContainer == "movie"

\* list(EditJob._generate_command_arguments())
GenerateEditArguments(e) ==
    <<FileName(EditContainer)>>
    \o GenerateTagArguments(e) \o GenerateChapterArguments(e)
    \o GenerateTitleArguments(e) \o GenerateEditTrackArguments(e.track_actions)

\* EditJob.__init__
EditInitState ==
    /\ track_actions = <<>>
    /\ tag_actions = <<>>
    /\ chapter_action = NoAction
    /\ container_title_action = NoAction
    /\ edit_calls = <<>>
    /\ edit_out = <<>>
    /\ edit_error = ""

\* a call as it is remembered: the method, the track (NoTrack when it has
\* none) and what it asks for
EditCall(method, track, name, action, value) ==
    [method |-> method, track |-> track, name |-> name, action |-> action,
     value |-> value]

\* the EditJob after a call; the call is remembered when it raised nothing
Edited(e, call) ==
    /\ track_actions' = e.track_actions
    /\ tag_actions' = e.tag_actions
    /\ chapter_action' = e.chapter_action
    /\ container_title_action' = e.container_title_action
    /\ edit_error' = e.error
    /\ edit_calls' = IF e.error = "" THEN Append(edit_calls, call) ELSE edit_calls
    /\ edit_out' = <<>>
    /\ UNCHANGED <<sel_vars, hdr_vars, job_vars>>

\* the tracks, flags, properties and values the calls are made with
EditTracks == {Track(EditContainer, 1), Track(EditContainer, 4), Track(NoContainer, 0)}
MoreCalls == Len(edit_calls) < MaxEditCalls

CallSetTrackFlag ==
    /\ MoreCalls
    /\ \E t \in EditTracks :
           Edited(SetTrackFlag(EditJob, t, "flag-default", "True"),
                  EditCall("set_track_flag", t, "flag-default", Set, "True"))

CallDeleteTrackFlag ==
    /\ MoreCalls
    /\ \E t \in EditTracks :
           Edited(DeleteTrackFlag(EditJob, t, "flag-default"),
                  EditCall("delete_track_flag", t, "flag-default", Delete, "None"))

CallSetTrackProperty ==
    /\ MoreCalls
    /\ \E t \in EditTracks :
           Edited(SetTrackProperty(EditJob, t, "name", "Main"),
                  EditCall("set_track_property", t, "name", Set, "Main"))

CallAddTrackProperty ==
    /\ MoreCalls
    /\ \E t \in EditTracks :
           Edited(AddTrackProperty(EditJob, t, "name", "Main"),
                  EditCall("add_track_property", t, "name", Add, "Main"))

CallDeleteTrackProperty ==
    /\ MoreCalls
    /\ \E t \in EditTracks :
           Edited(DeleteTrackProperty(EditJob, t, "name"),
                  EditCall("delete_track_property", t, "name", Delete, "None"))

CallSetTags ==
    /\ MoreCalls
    /\ Edited(SetTags(EditJob, "global", "tags.xml"),
              EditCall("set_tags", NoTrack, "global", Set, "tags.xml"))

CallDeleteChapters ==
    /\ MoreCalls
    /\ Edited(DeleteChapters(EditJob),
              EditCall("delete_chapters", NoTrack, "chapters", Delete, "None"))

CallSetContainerTitle ==
    /\ MoreCalls
    /\ Edited(SetContainerTitle(EditJob, "Movie"),
              EditCall("set_container_title", NoTrack, "title", Set, "Movie"))

CallGenerateEditArguments ==
    /\ edit_out' = GenerateEditArguments(EditJob)
    /\ edit_error' = ""
    /\ UNCHANGED <<track_actions, tag_actions, chapter_action,
                   container_title_action, edit_calls>>
    /\ UNCHANGED <<sel_vars, hdr_vars, job_vars>>

\* MuxJob.__init__
JobInitState ==
    /\ track_order = <<>>
    /\ track_options = <<>>
    /\ container_options = <<>>
    /\ shared_options = {}
    /\ job_error = ""
    /\ output_options = EmptyDict
    /\ job_out = NoOutput
    /\ job_passes = 0

(***************************************************************************)
(* The inputs of SelSpec                                                   *)
(***************************************************************************)
\* every sub-list of the tracks of a container, in stream order
TrackLists ==
    UNION {{LET chosen(t) == (t.index + 1) \in S
            IN SelectSeq(ContainerTracksOf(c), chosen)
            : S \in SUBSET (1..Len(ContainerStreams[c]))}
           : c \in {"movie", "extras"}}

SelChars == {"v", "a", "s", "-", "0", "1", "2", ":", ","}

\* the selectors of the index/slice-list form, up to MaxSelLen characters
IndexSelectors ==
    UNION {{s \in [1..n -> SelChars] : CommaDelimNosMatch(s)} : n \in 1..MaxSelLen}

ChainWords == {"all", "isAudio", "isEnglish", "isForced", "name", "isAudio or title"}

FragmentTexts == {p \o <<w>> : p \in {<<>>, <<"+">>, <<"-">>}, w \in ChainWords}

RECURSIVE JoinColon(_)
JoinColon(fs) ==
    IF Len(fs) = 1 THEN fs[1] ELSE fs[1] \o <<":">> \o JoinColon(Tail(fs))

\* the selectors of the expression-chain form, up to MaxFrags fragments
ChainSelectors ==
    UNION {{JoinColon(fs) : fs \in [1..n -> FragmentTexts]} : n \in 1..MaxFrags}

ConstantSelectors == {NoneSelector, <<>>, <<"none">>, <<"all">>}

Selectors == ConstantSelectors \cup IndexSelectors \cup ChainSelectors

SelInitState ==
    /\ sel_pc = "call"
    /\ fragments = <<>>
    /\ indexed_tracks = <<>>
    /\ selected_tracks = <<>>
    /\ sel_result = <<>>
    /\ sel_error = ""
    /\ sel_call = 1
    /\ prev_result = <<>>

SelInit ==
    /\ track_list \in TrackLists
    /\ selector \in Selectors
    /\ SelInitState
    /\ HdrInitState
    /\ JobInitState
    /\ EditInitState

SelNext ==
    \/ SelectNone
    \/ SelectAll
    \/ SelectIndexList
    \/ IndexFragmentStep
    \/ IndexReturn
    \/ SelectExpressionChain
    \/ ChainFragmentStep
    \/ ChainReturn
    \/ SelectAgain

SelSpec == SelInit /\ [][SelNext]_vars

(***************************************************************************)
(* HdrSpec: any sequence of accesses to the HDR information of the tracks  *)
(***************************************************************************)
HdrInit ==
    /\ track_list = <<>>
    /\ selector = NoneSelector
    /\ SelInitState
    /\ HdrInitState
    /\ JobInitState
    /\ EditInitState

HdrNext ==
    \E t \in HdrTracks :
        \/ AccessHdrFormats(t)
        \/ AccessIsHdr(t)
        \/ CallGetSelectorValues(t)

HdrSpec == HdrInit /\ [][HdrNext]_vars

\* the selectors that read typeIndex
TypeIndexSelectors ==
    {<<"typeIndex == 0">>, <<"typeIndex == 1">>, <<"all", ":", "-", "typeIndex == 1">>}

TypeInit ==
    /\ track_list \in TrackLists
    /\ selector \in TypeIndexSelectors
    /\ SelInitState
    /\ HdrInitState
    /\ JobInitState
    /\ EditInitState

\* selections by typeIndex from the full and the reduced lists of a container
TypeNext ==
    \/ SelectExpressionChain
    \/ ChainFragmentStep
    \/ ChainReturn

TypeSpec == TypeInit /\ [][TypeNext]_vars

Init ==
    /\ track_list = <<>>
    /\ selector = NoneSelector
    /\ SelInitState
    /\ HdrInitState
    /\ JobInitState
    /\ EditInitState

Next ==
    \/ CallAppendTrack
    \/ CallAppendAllTracks
    \/ CallInsertTrack
    \/ CallRemoveTrack
    \/ CallSetTrackOptions
    \/ CallUpdateTrackOptions
    \/ CallDeleteTrackOptions
    \/ CallSetContainerOptions
    \/ CallUpdateContainerOptions
    \/ CallDeleteContainerOptions
    \/ CallSetOutputOptions
    \/ CallUpdateOutputOptions
    \/ CallGenerateCommandArguments

Spec == Init /\ [][Next]_vars

\* any calls on an EditJob of a Matroska container, and the generation
EditNext ==
    \/ CallSetTrackFlag
    \/ CallDeleteTrackFlag
    \/ CallSetTrackProperty
    \/ CallAddTrackProperty
    \/ CallDeleteTrackProperty
    \/ CallSetTags
    \/ CallDeleteChapters
    \/ CallSetContainerTitle
    \/ CallGenerateEditArguments

EditSpec == Init /\ [][EditNext]_vars

\* the job after a call that is remembered with the container and the
\* options it was made with
Called(j, call, container, args) ==
    /\ track_order' = j.track_order
    /\ track_options' = j.track_options
    /\ container_options' = j.container_options
    /\ shared_options' = j.shared_options
    /\ job_error' = j.error
    /\ output_options' = j.output_options
    /\ job_out' = [NoOutput EXCEPT !.call = call, !.container = container, !.args = args]
    /\ UNCHANGED <<job_passes, sel_vars, hdr_vars, edit_vars>>

\* the keys of the dicts a call was made with, "None" for no dict
KeysGiven(options, common) ==
    << IF options = EmptyDict THEN "None" ELSE options[1].key,
       IF common = EmptyDict THEN "None" ELSE common[1].key >>

\* the containers whose tracks are appended, one by one or all at once
PartContainers == {"feature", "clip"}
PartTracks == UNION {Range(ContainerTracksOf(c)) : c \in PartContainers}

PartAppendTrack ==
    \E t \in PartTracks, o \in TrackOptionChoices :
        Called(AppendTrack(Job, t, o, {}), "append_track", t.container,
               KeysGiven(EmptyDict, o))

PartAppendAllTracks ==
    \E c \in PartContainers, co \in ContainerOptionChoices, o \in TrackOptionChoices :
        Called(AppendAllTracks(Job, c, co, o), "append_all_tracks", c,
               KeysGiven(co, o))

PartRemoveTrack ==
    \E t \in PartTracks :
        Called(RemoveTrack(Job, t, TRUE, TRUE), "remove_track", t.container,
               KeysGiven(EmptyDict, EmptyDict))

\* tracks appended to a job one by one and container by container
PartNext ==
    \/ PartAppendTrack
    \/ PartAppendAllTracks
    \/ PartRemoveTrack

PartSpec == Init /\ [][PartNext]_vars

\* jobs built with append_track, and the calls that run a tool
ToolNext ==
    \/ CallAppendTrack
    \/ CallRun
    \/ CallExtractTracks
    \/ CallTrackExtract
    \/ CallExtractChapters
    \/ CallEditJobRun

ToolSpec == Init /\ [][ToolNext]_vars

\* the tracks and option dicts the jobs of GenSpec are built with
GenTracks ==
    {Track("feature", 1), Track("feature", 2), Track("clip", 0)}
GenContainers == {t.container : t \in GenTracks}
GenOptionChoices ==
    {<<Item("Name", PyStr("Main"))>>, <<Item("Default", PyBool(TRUE))>>}

GenAppendTrack ==
    \E t \in GenTracks, o \in GenOptionChoices \cup {EmptyDict} :
        Becomes(AppendTrack(Job, t, o, {}))

GenUpdateTrackOptions ==
    \E t \in GenTracks, o \in GenOptionChoices : Becomes(UpdateTrackOptions(Job, t, o))

GenUpdateContainerOptions ==
    \E c \in GenContainers, o \in Stored(ContainerOptionChoices) :
        Becomes(UpdateContainerOptions(Job, c, o))

\* jobs with several tracks of one type of a container and options stored
\* in either order, and the generation of their arguments
GenNext ==
    \/ GenAppendTrack
    \/ GenUpdateTrackOptions
    \/ GenUpdateContainerOptions
    \/ CallGenerateCommandArguments

GenSpec == Init /\ [][GenNext]_vars

\* the job after auto_assign_track_options or one of its passes: one more
\* pass made
Passed(j, call, args) ==
    /\ track_order' = j.track_order
    /\ track_options' = j.track_options
    /\ container_options' = j.container_options
    /\ shared_options' = j.shared_options
    /\ job_error' = j.error
    /\ output_options' = j.output_options
    /\ job_out' = [NoOutput EXCEPT !.call = call, !.args = args]
    /\ job_passes' = job_passes + 1
    /\ UNCHANGED <<sel_vars, hdr_vars, edit_vars>>

\* the container, tracks and option dicts the jobs of AutoSpec are built with
AutoContainer == "feature"
AutoTracks == Range(ContainerTracksOf(AutoContainer))
AutoOptionChoices ==
    {EmptyDict, <<Item("Name", PyStr("SDH"))>>, <<Item("Language", PyStr("fre"))>>}

\* the job is built before the first pass
Building == job_passes = 0

AutoAppendTrack ==
    /\ Building
    /\ \E t \in AutoTracks, o \in AutoOptionChoices : Becomes(AppendTrack(Job, t, o, {}))

AutoAppendAllTracks ==
    /\ Building
    /\ \E o \in AutoOptionChoices : Becomes(AppendAllTracks(Job, AutoContainer, EmptyDict, o))

AutoInsertTrack ==
    /\ Building
    /\ \E t \in AutoTracks, i \in {0, Len(track_order)} : Becomes(InsertTrack(Job, i, t))

AutoSetTrackOptions ==
    /\ Building
    /\ \E t \in AutoTracks, o \in Stored(AutoOptionChoices) :
           Becomes(SetTrackOptions(Job, t, o, {}))

AutoUpdateTrackOptions ==
    /\ Building
    /\ \E t \in AutoTracks, o \in Stored(AutoOptionChoices) :
           Becomes(UpdateTrackOptions(Job, t, o))

\* the keyword arguments of a call, as they are written
Keywords(infer_flags_from_name, assign_sensible_names) ==
    <<IF infer_flags_from_name THEN "True" ELSE "False",
      IF assign_sensible_names THEN "True" ELSE "False">>

CallAutoAssignTrackOptions ==
    /\ job_passes < MaxPasses
    /\ \E infer_flags_from_name \in BOOLEAN, assign_sensible_names \in BOOLEAN :
           Passed(AutoAssignTrackOptions(Job, infer_flags_from_name, assign_sensible_names),
                  "auto_assign_track_options",
                  Keywords(infer_flags_from_name, assign_sensible_names))

CallInferFlagsFromName ==
    /\ job_passes < MaxPasses
    /\ Passed(InferFlagsFromName(Job), "_infer_flags_from_name", <<>>)

\* jobs built from the tracks of one container, then the passes
AutoNext ==
    \/ AutoAppendTrack
    \/ AutoAppendAllTracks
    \/ AutoInsertTrack
    \/ AutoSetTrackOptions
    \/ AutoUpdateTrackOptions
    \/ CallAutoAssignTrackOptions
    \/ CallInferFlagsFromName

AutoSpec == Init /\ [][AutoNext]_vars

(***************************************************************************)
(* Properties of select_tracks_from_list (SelSpec)                         *)
(***************************************************************************)
IndexForm(sel) ==
    /\ ~(sel = <<"none">> \/ Falsy(sel))
    /\ sel # <<"all">>
    /\ CommaDelimNosMatch(sel)

ChainForm(sel) ==
    /\ ~(sel = <<"none">> \/ Falsy(sel))
    /\ sel # <<"all">>
    /\ ~CommaDelimNosMatch(sel)

PositionIn(list, x) == CHOOSE i \in 1..Len(list) : list[i] = x

IsSubsequence(r, list) ==
    /\ NoDuplicates(r)
    /\ \A i \in 1..Len(r) : InList(r[i], list)
    /\ \A i, j \in 1..Len(r) :
          i < j => PositionIn(list, r[i]) < PositionIn(list, r[j])

\* the tracks of a set, in the order of the list
InOrderOf(list, S) == LET member(t) == t \in S IN SelectSeq(list, member)

Movie(i) == Track("movie", i)

\* C1: whatever select returns is a subsequence of the duplicate-free list
\* it was given (tracks of the list, in its order, none twice), in each of
\* the three forms, and so is the running selection of an expression chain
\* after every fragment.
C1_SelectionIsSubsequence ==
    /\ sel_pc = "returned" => IsSubsequence(sel_result, track_list)
    /\ sel_pc \in {"chain", "raised", "returned"} =>
          IsSubsequence(selected_tracks, track_list)

\* a chain of two fragments has returned at least two tracks, not all
C1_Witness ==
    /\ sel_pc = "returned"
    /\ sel_call = 1
    /\ ChainForm(selector)
    /\ Len(Split(selector, ":")) = 2
    /\ Len(sel_result) >= 2
    /\ Len(sel_result) < Len(track_list)
    /\ NoDuplicates(track_list)

\* the tracks of the list for which the expression holds
Satisfying(list, expression) ==
    {t \in Range(list) :
        expression = <<"all">> \/ EvalExpression(expression, t) = "True"}

RECURSIVE FoldFragments(_, _, _)
\* the left-to-right fold of the fragments over a set of selected tracks
FoldFragments(list, frags, S) ==
    IF frags = <<>> THEN S
    ELSE FoldFragments(list, Tail(frags),
            IF Polarity(Head(frags)) = "-"
            THEN S \ Satisfying(list, Expression(Head(frags)))
            ELSE S \cup Satisfying(list, Expression(Head(frags))))

\* C2: the result of an expression chain is the fold of its fragments from
\* the empty selection: '+' or no prefix adds the tracks of T satisfying the
\* expression, '-' removes them, the expression being evaluated over all of
\* T; the result is in T's order.  '+isAudio:-isEnglish' on
\* [v0(eng), a1(eng), a2(jpn)] returns [a2]; '+isEnglish:-isForced' returns
\* the English tracks that are not forced.
C2_ChainIsFold ==
    (sel_pc = "returned" /\ sel_call = 1 /\ ChainForm(selector)) =>
        /\ sel_result =
              InOrderOf(track_list, FoldFragments(track_list, Split(selector, ":"), {}))
        /\ (track_list = <<Movie(0), Movie(1), Movie(2)>>
            /\ selector = <<"+", "isAudio", ":", "-", "isEnglish">>)
               => sel_result = <<Movie(2)>>
        /\ selector = <<"+", "isEnglish", ":", "-", "isForced">>
               => sel_result =
                     InOrderOf(track_list,
                        {t \in Range(track_list) :
                            Attr(t).language = "eng" /\ ~Attr(t).forced})

C2_Witness ==
    /\ sel_pc = "returned"
    /\ sel_call = 1
    /\ track_list = <<Movie(0), Movie(1), Movie(2)>>
    /\ selector = <<"+", "isAudio", ":", "-", "isEnglish">>
    /\ sel_result = <<Movie(2)>>

C3_Constants ==
    /\ (sel_pc = "returned" /\ (selector = <<"none">> \/ selector = <<>>
                                 \/ selector = NoneSelector))
          => sel_result = <<>>
    /\ (sel_pc = "returned" /\ selector = <<"all">>) => sel_result = track_list
    /\ (sel_pc = "returned" /\ sel_call = 2) => sel_result = prev_result

\* C3: "none", "" and None select nothing, "all" selects the whole list in
\* its order, so selecting "all" from a returned selection returns that
\* selection; select never changes the list it was given.
C3_ConstantForms ==
    /\ []C3_Constants
    /\ [][sel_call' = sel_call => track_list' = track_list]_vars

\* "all" selected again from a selection of two or more tracks
C3_Witness ==
    /\ sel_pc = "returned"
    /\ sel_call = 2
    /\ Len(prev_result) >= 2
    /\ sel_result = prev_result

\* the index a signed index or bound stands for in a list of n tracks
FromEnd(k, n) == IF k < 0 THEN k + n ELSE k

\* the tracks one fragment of the index/slice form names: an index names
\* one track of its list, a slice those from start up to, not including, end
ResolvedBy(list, fragment) ==
    LET typed == fragment[1] \in TypeChars
        wanted == CASE fragment[1] = "v" -> {Video}
                    [] fragment[1] = "a" -> {Audio}
                    [] fragment[1] = "s" -> {Subtitle}
                    [] OTHER -> {Video, Audio, Subtitle, Attachment}
        source == InOrderOf(list, {t \in Range(list) : TypeOf(t) \in wanted})
        n == Len(source)
        text == IF typed THEN Tail(fragment) ELSE fragment
        parts == Split(text, ":")
    IN IF Len(parts) = 1
       THEN {source[FromEnd(IntOf(text), n) + 1]}
       ELSE {source[k + 1] : k \in
                {k \in 0..(n - 1) :
                    /\ parts[1] # <<>> => k >= FromEnd(IntOf(parts[1]), n)
                    /\ parts[2] # <<>> => k < FromEnd(IntOf(parts[2]), n)}}

\* C4: the result of an index/slice list is the union of the tracks its
\* comma-separated fragments name, an unprefixed fragment in T and a
\* v/a/s fragment in the video/audio/subtitle tracks of T, given in T's
\* order without duplicates whatever the order or repetition of the
\* fragments.  "1,0" returns [T[0], T[1]]; "v1" on [v0, a0, v1, s0]
\* returns [v1].
C4_IndexListIsUnion ==
    (sel_pc = "returned" /\ sel_call = 1 /\ IndexForm(selector)) =>
        /\ sel_result =
              InOrderOf(track_list,
                 UNION {ResolvedBy(track_list, f) : f \in Range(Split(selector, ","))})
        /\ selector = <<"1", ",", "0">> => sel_result = <<track_list[1], track_list[2]>>
        /\ (track_list = <<Movie(0), Movie(1), Movie(3), Movie(4)>>
            /\ selector = <<"v", "1">>) => sel_result = <<Movie(3)>>

C4_Witness ==
    /\ sel_pc = "returned"
    /\ sel_call = 1
    /\ selector = <<"1", ",", "0">>
    /\ Len(track_list) >= 3
    /\ sel_result = <<track_list[1], track_list[2]>>

\* the list [v0, a0, v1, s0]
TwoVideoList == <<Movie(0), Movie(1), Movie(3), Movie(4)>>

\* C5 as claimed: select([v0, a0, v1, s0], "v:0") returns exactly [v0].
C5_AsClaimed ==
    (sel_pc = "returned" /\ sel_call = 1 /\ track_list = TwoVideoList
     /\ selector = <<"v", ":", "0">>) => sel_result = <<Movie(0)>>

\* C5: select([v0, a0, v1, s0], "v:0") returns the empty list, the slice
\* ':0' of the video tracks being empty; "v0" and "v:1" return exactly [v0].
C5_TypedSlice ==
    (sel_pc = "returned" /\ sel_call = 1 /\ track_list = TwoVideoList) =>
        /\ selector = <<"v", ":", "0">> => sel_result = <<>>
        /\ selector = <<"v", "0">> => sel_result = <<Movie(0)>>
        /\ selector = <<"v", ":", "1">> => sel_result = <<Movie(0)>>

C5_Witness ==
    /\ sel_pc = "returned"
    /\ sel_call = 1
    /\ track_list = TwoVideoList
    /\ selector = <<"v", ":", "0">>
    /\ sel_result = <<>>

\* a fragment that is a bare index, optionally type-prefixed, outside
\* [-n, n-1] for the n tracks of the list it is resolved against
OutOfRangeIndex(list, fragment) ==
    LET text == IF fragment # <<>> /\ fragment[1] \in TypeChars
                THEN Tail(fragment) ELSE fragment
        wanted == CASE CharAt(fragment, 1) = "v" -> {Video}
                    [] CharAt(fragment, 1) = "a" -> {Audio}
                    [] CharAt(fragment, 1) = "s" -> {Subtitle}
                    [] OTHER -> {Video, Audio, Subtitle, Attachment}
        n == Cardinality({t \in Range(list) : TypeOf(t) \in wanted})
    IN /\ IntOk(text)
       /\ IntOf(text) < 0 - n \/ IntOf(text) > n - 1

\* C6: an index/slice list with a bare index out of the range of its list
\* never returns: select raises (IndexError, or the ValueError of an
\* earlier malformed fragment); the fragment is not skipped, even beside
\* valid fragments.
C6_OutOfRangeFails ==
    (sel_call = 1 /\ IndexForm(selector)
     /\ \E f \in Range(Split(selector, ",")) : OutOfRangeIndex(track_list, f)) =>
        /\ sel_pc \in {"call", "index", "raised"}
        /\ sel_pc = "raised" => sel_error \in {"IndexError", "ValueError"}
        /\ (sel_pc = "index" /\ fragments # <<>>
            /\ OutOfRangeIndex(track_list, Head(fragments))) =>
               IndexFragment(track_list, Head(fragments)).error = "IndexError"

\* IndexError after a valid fragment has named a track
C6_Witness ==
    /\ sel_pc = "raised"
    /\ sel_call = 1
    /\ IndexForm(selector)
    /\ sel_error = "IndexError"
    /\ Len(indexed_tracks) >= 1
    /\ OutOfRangeIndex(track_list, Head(fragments))

\* the expression gives a non-boolean value or raises for the track
FailsFor(expression, t) ==
    expression # <<"all">> /\ EvalExpression(expression, t) \notin {"True", "False"}

BoundTracks == {t \in AllTracks : IsBound(t)}

\* C7 as claimed: for every list T, a chain with a fragment whose
\* expression gives a non-boolean value or raises does not return.
C7_AsClaimed ==
    (sel_call = 1 /\ ChainForm(selector)
     /\ \E f \in Range(Split(selector, ":")) :
           \E t \in BoundTracks : FailsFor(Expression(f), t))
        => sel_pc # "returned"

\* C7: a chain with a fragment whose expression, evaluated for at least one
\* track of T, gives a non-boolean value or raises makes select fail with
\* the selector error (RuntimeError) and return nothing.
C7_InvalidExpressionFails ==
    (sel_call = 1 /\ ChainForm(selector)
     /\ \E f \in Range(Split(selector, ":")) :
           \E t \in Range(track_list) : FailsFor(Expression(f), t))
        => /\ sel_pc \in {"call", "chain", "raised"}
           /\ sel_pc = "raised" =>
                 sel_error \in {"RuntimeError: exception", "RuntimeError: not boolean"}
           /\ (sel_pc = "chain" /\ fragments = <<>>) => FALSE

\* the second fragment returned a string after a first one selected tracks
C7_Witness ==
    /\ sel_pc = "raised"
    /\ sel_call = 1
    /\ sel_error = "RuntimeError: not boolean"
    /\ Len(selected_tracks) >= 1
    /\ Len(fragments) = 1
    /\ Expression(Head(fragments)) = <<"name">>

(***************************************************************************)
(* Properties of the HDR cache (HdrSpec)                                   *)
(***************************************************************************)
C8_State ==
    \A t \in AllTracks :
        /\ probe_results[t] <= 1
        /\ probe_results[t] = 1 <=> (hdr_cache[t].cached /\ TypeOf(t) = Video)
        /\ TypeOf(t) # Video => probe_calls[t] = 0
        /\ (hdr_last.track = t /\ hdr_last.outcome = "value" /\ TypeOf(t) # Video)
              => hdr_last.formats = {}

C8_Step ==
    \A t \in AllTracks :
        probe_results[t] = 1 =>
            /\ probe_calls'[t] = probe_calls[t]
            /\ probe_results'[t] = 1
            /\ hdr_cache'[t] = hdr_cache[t]
            /\ (hdr_last' # hdr_last /\ hdr_last'.track = t) =>
                  /\ hdr_last'.outcome = "value"
                  /\ hdr_last'.formats = hdr_cache[t].formats

C9_NoTrackTwice == NoDuplicates(track_order)

\* every track is in the job and one more call to add a track has been refused
C9_Witness ==
    /\ Len(track_order) = Cardinality(JobTracks)
    /\ job_error = "MuxDuplicateTrackFound"

\* the job is what it was before the call, the exception apart
Refused(after, error) == after = RaiseIn(Job, error)

\* C10: append_track and insert_track of a track that is in the track order
\* raise MuxDuplicateTrackFound, remove_track of a track that is not in it
\* raises MuxTrackNotFound, and each of these calls leaves the track order,
\* the track options and the container options as they were.
C10_RefusedCallsChangeNothing ==
    \A t \in JobTracks :
        IF InList(t, track_order)
        THEN /\ \A o \in TrackOptionChoices :
                    Refused(AppendTrack(Job, t, o, {}), "MuxDuplicateTrackFound")
             /\ \A i \in InsertIndexes :
                    Refused(InsertTrack(Job, i, t), "MuxDuplicateTrackFound")
        ELSE \A ct \in BOOLEAN, cc \in BOOLEAN :
                    Refused(RemoveTrack(Job, t, ct, cc), "MuxTrackNotFound")

\* a second append_track or insert_track of the only track of the job has
\* been refused while options are stored for tracks and for containers
C10_Witness ==
    /\ job_error = "MuxDuplicateTrackFound"
    /\ track_order = <<Track(NoContainer, 0)>>
    /\ track_options # <<>>
    /\ container_options # <<>>

\* the tracks of the container that are in the track order
TracksInOrderOf(order, container) ==
    {t \in Range(order) : t.container = container}

\* C11: a remove_track(t) that returns leaves t out of the track order; with
\* cleanup_track_options (the default) no options are stored for t, without
\* it the track options are as before; with cleanup_container_options (the
\* default) the options of the container of t are empty when no track of
\* the container remains and as before when one remains, without it the
\* container options are as before.
C11_RemoveCleansUp ==
    \A t \in Range(track_order), ct \in BOOLEAN, cc \in BOOLEAN :
        LET after == RemoveTrack(Job, t, ct, cc)
            c == t.container
        IN after.error = "" =>
            /\ ~InList(t, after.track_order)
            /\ after.track_order = SelectSeq(track_order, LAMBDA x : x # t)
            /\ IF ct
               THEN /\ t \notin DOMAIN after.track_options
                    /\ GetTrackOptions(after, t) = EmptyDict
                    /\ AppendTrack(after, t, EmptyDict, {}).track_options
                           = after.track_options
               ELSE after.track_options = track_options
            /\ \A u \in (DOMAIN track_options) \ {t} :
                   /\ u \in DOMAIN after.track_options
                   /\ after.track_options[u] = track_options[u]
            /\ IF cc /\ IsBound(t)
               THEN /\ IF TracksInOrderOf(after.track_order, c) = {}
                       THEN GetContainerOptions(after, c) = EmptyDict
                       ELSE GetContainerOptions(after, c) = GetContainerOptions(Job, c)
                    /\ \A d \in JobContainers \ {c} :
                           GetContainerOptions(after, d) = GetContainerOptions(Job, d)
               ELSE after.container_options = container_options

\* the job holds the last track of one container and one of two tracks of
\* another, options being stored for both tracks and both containers
C11_Witness ==
    \E t \in Range(track_order), u \in Range(track_order) :
        /\ TracksInOrderOf(track_order, t.container) = {t}
        /\ Cardinality(TracksInOrderOf(track_order, u.container)) = 2
        /\ {t, u} \subseteq DOMAIN track_options
        /\ track_options[t] # EmptyDict /\ track_options[u] # EmptyDict
        /\ {t.container, u.container} \subseteq DOMAIN container_options
        /\ RemoveTrack(Job, t, TRUE, TRUE).error = ""
        /\ RemoveTrack(Job, u, TRUE, TRUE).error = ""

(***************************************************************************)
(* Properties of the option stores                                         *)
(***************************************************************************)
\* a dict as the set of its items
AsMap(d) == {<<d[i].key, d[i].value>> : i \in 1..Len(d)}

\* the reference map m updated with the dict o
MapUpdate(m, o) == {kv \in m : kv[1] \notin DictKeys(o)} \cup AsMap(o)

\* the tracks of the job that can be keys of the track options
KeyTracks == {t \in JobTracks : Hashable(t)}

\* option dicts the stores are tried with, beside those of the calls
MoreTrackOptions ==
    {<<Item("Default", PyBool(TRUE))>>,
     <<Item("Name", PyStr("Other")), Item("Forced", PyBool(TRUE))>>}
MoreContainerOptions == {<<Item("NoAttachments", PyBool(TRUE))>>}

\* the call left the track order and the stored maps as they were, but for
\* the maps of the tracks and containers named and, if named, of the output
OthersKept(after, tracks, containers, output) ==
    /\ after.track_order = track_order
    /\ \A u \in KeyTracks \ tracks :
           GetTrackOptions(after, u) = GetTrackOptions(Job, u)
    /\ \A c \in JobContainers \ containers :
           GetContainerOptions(after, c) = GetContainerOptions(Job, c)
    /\ ~output => GetOutputOptions(after) = GetOutputOptions(Job)

\* set, update and delete of the options of track t, as those of a map
TrackStoreAsMap(t) ==
    /\ (t \notin DOMAIN track_options) => GetTrackOptions(Job, t) = EmptyDict
    /\ \A o \in TrackOptionChoices \cup MoreTrackOptions :
           LET set == SetTrackOptions(Job, t, o, {})
               upd == UpdateTrackOptions(Job, t, o)
           IN /\ GetTrackOptions(set, t) = o
              /\ OthersKept(set, {t}, {}, FALSE)
              /\ AsMap(GetTrackOptions(upd, t))
                     = MapUpdate(AsMap(GetTrackOptions(Job, t)), o)
              /\ OthersKept(upd, {t}, {}, FALSE)
    /\ GetTrackOptions(DeleteTrackOptions(Job, t), t) = EmptyDict
    /\ OthersKept(DeleteTrackOptions(Job, t), {t}, {}, FALSE)

\* set, update and delete of the options of container c, as those of a map
ContainerStoreAsMap(c) ==
    /\ (c \notin DOMAIN container_options) => GetContainerOptions(Job, c) = EmptyDict
    /\ \A o \in ContainerOptionChoices \cup MoreContainerOptions :
           LET set == SetContainerOptions(Job, c, o)
               upd == UpdateContainerOptions(Job, c, o)
           IN /\ GetContainerOptions(set, c) = o
              /\ OthersKept(set, {}, {c}, FALSE)
              /\ AsMap(GetContainerOptions(upd, c))
                     = MapUpdate(AsMap(GetContainerOptions(Job, c)), o)
              /\ OthersKept(upd, {}, {c}, FALSE)
    /\ GetContainerOptions(DeleteContainerOptions(Job, c), c) = EmptyDict
    /\ OthersKept(DeleteContainerOptions(Job, c), {}, {c}, FALSE)

\* set and update of the output options, as those of a map
OutputStoreAsMap ==
    \A o \in OutputOptionChoices :
        LET set == SetOutputOptions(Job, o)
            upd == UpdateOutputOptions(Job, o)
        IN /\ GetOutputOptions(set) = o
           /\ OthersKept(set, {}, {}, TRUE)
           /\ AsMap(GetOutputOptions(upd)) = MapUpdate(AsMap(GetOutputOptions(Job)), o)
           /\ OthersKept(upd, {}, {}, TRUE)

\* C12 as claimed: in every job, set, update, delete and get of the output,
\* container and track options behave as those of a map of maps, and change
\* neither the map of another track, container or scope nor the track order.
C12_AsClaimed ==
    /\ \A t \in KeyTracks : TrackStoreAsMap(t)
    /\ \A c \in JobContainers : ContainerStoreAsMap(c)
    /\ OutputStoreAsMap

\* C13 as claimed: after append_all_tracks(container, common_track_options=O)
\* with non-empty O, update_track_options(t, P) makes the options of t the
\* merge of O and P and leaves O as the options of every other track that
\* was appended from the container.
C13_AsClaimed ==
    \A c \in JobContainers, O \in Stored(TrackOptionChoices) :
        LET appended == AppendAllTracks(Job, c, EmptyDict, O)
        IN appended.error = "" =>
            \A t \in Range(ContainerTracksOf(c)), P \in MoreTrackOptions :
                LET updated == UpdateTrackOptions(appended, t, P)
                IN /\ AsMap(GetTrackOptions(updated, t)) = MapUpdate(AsMap(O), P)
                   /\ \A u \in Range(ContainerTracksOf(c)) \ {t} :
                          GetTrackOptions(updated, u) = O

(***************************************************************************)
(* Properties of the command generation                                    *)
(***************************************************************************)
\* a generation has ended, with its list or with an exception
Generated == job_out.call = "generate"

\* a generation has given its list
GeneratedList == Generated /\ job_error = ""

AllBound(order) == \A i \in 1..Len(order) : IsBound(order[i])

\* C14 as claimed: for every job of bound tracks, also with Title among the
\* output options, the generation gives a list that begins with '--output'
\* and the output path, followed by the arguments of the output options.
C14_AsClaimed ==
    (Generated /\ track_order # <<>> /\ AllBound(track_order)) =>
        /\ job_error = ""
        /\ Len(job_out.args) >= 2 + 2 * Len(output_options)
        /\ job_out.args[1] = "--output"
        /\ job_out.args[2] = OutputPath
        /\ \A i \in 1..Len(output_options) :
               job_out.args[2 * i + 1] = OptionFlag(output_options[i].key)

\* the place at which the container first appears in the track order
FirstPlace(order, container) ==
    CHOOSE i \in 1..Len(order) :
        /\ order[i].container = container
        /\ \A k \in 1..(i - 1) : order[k].container # container

\* the number of containers that appear in the track order before it does
RankOf(order, container) ==
    Cardinality({d \in {order[i].container : i \in 1..Len(order)} :
                    FirstPlace(order, d) < FirstPlace(order, container)})

\* the arguments that are file names of source containers, in their order
FileArguments(args) ==
    SelectSeq(args, LAMBDA a : a \in {FileName(c) : c \in JobContainers})

\* C15: the generated list ends with '--track-order' and the comma-joined
\* entries '<c>:<i>', one per track in the track order of the job, i the
\* index of the track in its container and c the rank of the first
\* appearance of its container in the track order; the file names of the
\* source containers are in the list in the order of that rank, once each.
C15_TrackOrderArgument ==
    GeneratedList =>
        LET args == job_out.args
            n == Len(args)
            files == FileArguments(args)
            containers == {track_order[i].container : i \in 1..Len(track_order)}
        IN /\ n >= 2
           /\ args[n - 1] = "--track-order"
           /\ args[n] = Join([i \in 1..Len(track_order) |->
                                ToString(RankOf(track_order, track_order[i].container))
                                \o ":" \o ToString(track_order[i].index)], ",")
           /\ Len(files) = Cardinality(containers)
           /\ \A c \in containers : files[RankOf(track_order, c) + 1] = FileName(c)

\* a list for three tracks of two containers, the second container between
\* the tracks of the first
C15_Witness ==
    /\ GeneratedList
    /\ Len(track_order) = 3
    /\ track_order[1].container = track_order[3].container
    /\ track_order[2].container # track_order[1].container
    /\ track_order[1].index > track_order[3].index

\* the job without the track
JobWithout(track) ==
    [Job EXCEPT !.track_order = SelectSeq(@, LAMBDA t : t # track)]

\* C16 as claimed: an Attachment track in the track order adds nothing to
\* the generated list, which is the list of the same job without the track.
C16_AsClaimed ==
    GeneratedList =>
        \A a \in Range(track_order) :
            TypeOf(a) = Attachment =>
                job_out.args = GenerateCommandArguments(JobWithout(a)).args

\* the step is the end of a generation
GenerationStep == job_out'.call = "generate"

MatroskaContainers == {"extras"}

\* C18: a tool runs only after the checks have passed: mkvmerge never runs
\* for a job with no track or with a track that has no container, and
\* mkvextract and mkvpropedit never run for a container whose format name
\* does not contain 'matroska'; these calls end with an exception instead.
C18_ToolAfterChecks ==
    /\ job_out.tool = "mkvmerge" =>
           /\ job_out.call = "run"
           /\ track_order # <<>>
           /\ AllBound(track_order)
    /\ job_out.tool \in {"mkvextract", "mkvpropedit"} =>
           job_out.container \in MatroskaContainers
    /\ (job_out.call = "run" /\ (track_order = <<>> \/ ~AllBound(track_order))) =>
           /\ job_out.tool = ""
           /\ job_error \in {"AssertionError", "TrackNoParentContainer"}
    /\ (job_out.call \in {"extract_tracks", "extract_chapters", "edit"}
        /\ job_out.container \notin MatroskaContainers) =>
           /\ job_out.tool = ""
           /\ job_error \in {"NotMatroskaContainer", "AssertionError"}

\* run has failed for a job with a bound track and a track with no container
C18_Witness ==
    /\ job_out.call = "run"
    /\ job_out.tool = ""
    /\ job_error = "TrackNoParentContainer"
    /\ Len(track_order) >= 2
    /\ IsBound(track_order[1])

\* a pass has been made over the job and raised nothing
AfterPass == job_passes >= 1 /\ job_error = ""

\* the lists of tracks the default flags are assigned in
Partitions ==
    {PartitionTracks(track_order, key) : key \in Range(PartitionKeys(track_order, <<>>))}

\* the stored Default option of the track is value
DefaultIs(track, value) ==
    LET options == GetTrackOptions(Job, track)
    IN "Default" \in DictKeys(options) /\ DictGet(options, "Default") = PyBool(value)

\* the places of the tracks of a list that are not forced, hearing impaired,
\* commentary or compatibility tracks
Candidates(tracks) ==
    {i \in 1..Len(tracks) : ~Disqualified(GetTrackOptions(Job, tracks[i]), tracks[i])}

\* C19 as stated: after the default flags pass, in every list of tracks of
\* one language and type that has a track which is not disqualified, the
\* first such track has Default true and every other track Default false.
\* The pass gives the flag to a commentary track ahead of a plain one.
C19_AsClaimed ==
    AfterPass =>
        \A tracks \in Partitions :
            Candidates(tracks) # {} =>
                \A i \in 1..Len(tracks) :
                    DefaultIs(tracks[i],
                              i \in Candidates(tracks)
                              /\ \A k \in Candidates(tracks) : i <= k)

\* C20 as stated: after auto_assign_track_options the assertion has not
\* failed and every list of tracks of one language and type has a track
\* with Default true.  Tracks appended with common options share one dict,
\* and the last write of the pass to it is read back for all of them.
C20_AsClaimed ==
    /\ job_passes >= 1 => job_error # "AssertionError"
    /\ AfterPass =>
           \A tracks \in Partitions : \E i \in 1..Len(tracks) : DefaultIs(tracks[i], TRUE)

\* every track of the job has a dict of its own
OwnOptions == shared_options = {}

\* the places of the hearing impaired and compatibility tracks of a list
Alternates(tracks) ==
    {i \in 1..Len(tracks) : AlternateKind(GetTrackOptions(Job, tracks[i]), tracks[i])}

\* C21 as stated: after the default flags pass, in every list of tracks of
\* one language and type whose tracks are all disqualified, the first hearing
\* impaired or compatibility track has Default true and every other track
\* Default false (stated for the jobs whose tracks share no dict).  The second hearing impaired track of a list, and a forced
\* or commentary track, take the flag as a candidate would.
C21_AsClaimed ==
    (AfterPass /\ OwnOptions) =>
        \A tracks \in Partitions :
            (Candidates(tracks) = {} /\ Alternates(tracks) # {}) =>
                \A i \in 1..Len(tracks) :
                    DefaultIs(tracks[i],
                              i \in Alternates(tracks)
                              /\ \A k \in Alternates(tracks) : i <= k)

\* the stored Language option, else the language tag of the track, else "und"
EffectiveLanguage(track) ==
    LET value == DictGetOr(GetTrackOptions(Job, track), "Language",
                           PyStr(Attr(track).language))
    IN IF Truthy(value) THEN value.repr ELSE "und"

\* the tracks of the job with the effective language and type of track
EffectivePartition(track) ==
    {t \in Range(track_order) :
        EffectiveLanguage(t) = EffectiveLanguage(track) /\ TypeOf(t) = TypeOf(track)}

\* C22 as stated: the tracks that compete for one default flag are those of
\* one effective language and type, a stored Language option counting as the
\* language: after the pass each such set has exactly one track with Default
\* true (stated for the jobs whose tracks share no dict).  The pass groups by the language tag of the track alone.
C22_AsClaimed ==
    (AfterPass /\ OwnOptions) =>
        \A track \in Range(track_order) :
            Cardinality({t \in EffectivePartition(track) : DefaultIs(t, TRUE)}) = 1

RECURSIVE Flatten(_)
\* the lists of a list one after another
Flatten(lists) == IF lists = <<>> THEN <<>> ELSE Head(lists) \o Flatten(Tail(lists))

\* the source containers of the job in the order of their first appearance
SourcesInOrder ==
    LET containers == {track_order[i].container : i \in 1..Len(track_order)}
    IN [r \in 1..Cardinality(containers) |->
           CHOOSE c \in containers : RankOf(track_order, c) = r - 1]

\* the value a stored option is written with for the track
WrittenValue(track, item) ==
    ToString(track.index) \o ":"
    \o (IF item.value.type = "bool"
        THEN (IF item.value = PyBool(TRUE) THEN "1" ELSE "0")
        ELSE item.value.repr)

\* the arguments of the stored options of a track, in the order given
WrittenOptions(track, options) ==
    Flatten([i \in 1..Len(options) |->
                IF options[i].key \in UnaryOptions
                THEN <<OptionFlag(options[i].key)>>
                ELSE <<OptionFlag(options[i].key), WrittenValue(track, options[i])>>])

\* the tracks of the job of one type from one container, in job order
BucketOf(container, type) ==
    SelectSeq(track_order, LAMBDA t : t.container = container /\ TypeOf(t) = type)

\* the arguments claimed for one bucket of one container
BucketAsClaimed(container, type) ==
    LET tracks == BucketOf(container, type)
    IN IF tracks = <<>> THEN <<ExcludeOption(type)>>
       ELSE <<SelectOption(type),
              Join([i \in 1..Len(tracks) |-> ToString(tracks[i].index)], ",")>>
            \o Flatten([i \in 1..Len(tracks) |->
                           WrittenOptions(tracks[i], GetTrackOptions(Job, tracks[i]))])

\* the arguments claimed for one source container
SourceAsClaimed(container) ==
    LET options == GetContainerOptions(Job, container)
    IN BucketAsClaimed(container, Video) \o BucketAsClaimed(container, Audio)
       \o BucketAsClaimed(container, Subtitle)
       \o [i \in 1..Len(options) |-> OptionFlag(options[i].key)]
       \o <<FileName(container)>>

\* the generated arguments between those of the output and '--track-order'
SourceArguments ==
    SubSeq(job_out.args, 3 + 2 * Len(output_options), Len(job_out.args) - 2)

\* C23: the generated list has, for each source container in the order of
\* first appearance, the three buckets Video, Audio, Subtitle in that order,
\* a bucket being its exclude flag when the job has no track of the type from
\* the container and else its select flag, the comma-joined Track.index of
\* the job's tracks of the type from the container in job order and the
\* option arguments of those tracks; then the option arguments of the
\* container and its file name.
C23_SourceArguments ==
    GeneratedList =>
        SourceArguments = Flatten([r \in 1..Len(SourcesInOrder) |->
                                      SourceAsClaimed(SourcesInOrder[r])])

\* a list for two audio tracks of one container, the later one of the
\* container first in the job, a track of another container between them,
\* options of a track and of the container stored
C23_Witness ==
    /\ GeneratedList
    /\ track_order = <<Track("feature", 2), Track("clip", 0), Track("feature", 1)>>
    /\ GetTrackOptions(Job, Track("feature", 1)) # EmptyDict
    /\ GetContainerOptions(Job, "feature") # EmptyDict

\* the places of the dict at which the options of the set are stored
PlacesOf(options, keys) == {i \in 1..Len(options) : options[i].key \in keys}

\* the options are stored strings first, then flags, then unary options
Canonical(options) ==
    /\ \A i \in PlacesOf(options, StringOptions) :
           \A k \in PlacesOf(options, BooleanOptions \cup UnaryOptions) : i < k
    /\ \A i \in PlacesOf(options, BooleanOptions) :
           \A k \in PlacesOf(options, UnaryOptions) : i < k

\* the arguments generated for the options of the track: those that follow
\* the select flag and the indexes of a bucket the track is alone in
AloneInBucket(track) ==
    /\ track \in Range(track_order)
    /\ BucketOf(track.container, TypeOf(track)) = <<track>>

ArgumentsOf(track) ==
    LET args == job_out.args
        at == CHOOSE i \in 1..Len(args) :
                  /\ args[i] = SelectOption(TypeOf(track))
                  /\ args[i + 1] = ToString(track.index)
                  /\ \E k \in i..Len(args) :
                         /\ args[k] = FileName(track.container)
                         /\ \A m \in i..(k - 1) : args[m] \notin {FileName(c) : c \in Containers}
        length == Len(WrittenOptions(track, GetTrackOptions(Job, track)))
    IN SubSeq(args, at + 2, at + 1 + length)

\* C24 as stated: the arguments of the options of a track are in the order
\* string options, boolean options, unary options, whatever the order in
\* which they were stored.  They are in the order of the dict.
C24_AsClaimed ==
    GeneratedList =>
        \A t \in Range(track_order) :
            AloneInBucket(t) =>
                ArgumentsOf(t) = WrittenOptions(t, InFormatterOrder(GetTrackOptions(Job, t)))

\* C24 amended: the arguments of the options of a track are in the order in
\* which the keys were first stored for it; a string option is written
\* '<index>:<value>' and a boolean option '<index>:0' or '<index>:1', with
\* the index of the track in its container.
C24_InStoredOrder ==
    GeneratedList =>
        \A t \in Range(track_order) :
            AloneInBucket(t) =>
                ArgumentsOf(t) = WrittenOptions(t, GetTrackOptions(Job, t))

\* a list for a track whose Default option was stored before its Name option
C24_Witness ==
    /\ GeneratedList
    /\ \E t \in Range(track_order) :
           /\ AloneInBucket(t)
           /\ t.index > 0
           /\ Len(GetTrackOptions(Job, t)) = 2
           /\ ~Canonical(GetTrackOptions(Job, t))

\* the name the pass reads for the track: the stored Name option if there is
\* one, else the name of the track, in lower case
NameRead(track) ==
    LET options == GetTrackOptions(Job, track)
    IN Lower(IF "Name" \in DictKeys(options) THEN DictGet(options, "Name").repr
             ELSE Attr(track).name)

\* the flags claimed for a name, as a map
FlagsFor(name) ==
    {<<flag, PyBool(TRUE)>> :
        flag \in {f \in {"Forced", "HearingImpaired", "TextDescriptions", "Commentary"} :
                     \/ f = "Forced" /\ Contains(name, "forced")
                     \/ f = "HearingImpaired" /\ Contains(name, "sdh")
                     \/ f = "TextDescriptions" /\ (\/ Contains(name, "descriptive")
                                                   \/ Contains(name, "descriptions"))
                     \/ f = "Commentary" /\ Contains(name, "commentary")}}

\* the step is a call of _infer_flags_from_name that raised nothing
InferStep == job_out'.call = "_infer_flags_from_name" /\ job_error' = ""

\* C25 as stated: the pass leaves the track order as it is, and the option
\* map of every track of the job after it is the map before it with the
\* flags of the track's own name set to true, every other key kept.  A dict
\* shared by several tracks gets the flags of all their names.
C25_AsClaimed ==
    [][InferStep =>
          /\ track_order' = track_order
          /\ \A t \in Range(track_order) :
                 /\ t \in DOMAIN track_options'
                 /\ AsMap(track_options'[t])
                    = {kv \in AsMap(GetTrackOptions(Job, t)) :
                          kv[1] \notin {f[1] : f \in FlagsFor(NameRead(t))}}
                      \cup FlagsFor(NameRead(t))]_vars

\* the step is a call of auto_assign_track_options with
\* assign_sensible_names=True that raised nothing
NamesStep ==
    /\ job_out'.call = "auto_assign_track_options"
    /\ job_out'.args[2] = "True"
    /\ job_error' = ""

\* the stored Name option of the dict is the text
NamedAs(options, text) ==
    "Name" \in DictKeys(options) /\ DictGet(options, "Name") = PyStr(text)

\* what is claimed of the name of one track after the names pass: before is
\* its option dict before the call, after the dict after it, videos the
\* number of video tracks of the job
NameAsClaimed(track, before, after, videos) ==
    LET prior == EffectiveText(before, "Name", Attr(track).name)
        language == EffectiveText(after, "Language", Attr(track).language)
        is_default == EffectiveFlag(after, "Default", TrackFlags(track).default)
        is_hi == EffectiveFlag(after, "HearingImpaired", TrackFlags(track).hearing_impaired)
        is_commentary == EffectiveFlag(after, "Commentary", TrackFlags(track).commentary)
    IN /\ (TypeOf(track) = Subtitle /\ is_hi) => NamedAs(after, "SDH")
       /\ (/\ TypeOf(track) \in {Audio, Subtitle}
           /\ ~(TypeOf(track) = Subtitle /\ is_hi)
           /\ is_default
           /\ language # "") =>
              IF TypeOf(track) = Audio /\ is_commentary /\ prior = ""
              THEN NamedAs(after, "Commentary")
              ELSE NamedAs(after, "")
       /\ (TypeOf(track) = Video /\ videos = 1) => NamedAs(after, "")
       /\ (TypeOf(track) = Video /\ videos # 1) =>
              \A text \in {"", "SDH", "Commentary"} :
                  NamedAs(after, text) => NamedAs(before, text)

\* C26 as stated: after the names pass a hearing impaired subtitle track is
\* named 'SDH'; any other audio or subtitle track that is default and has a
\* language has an empty Name, but a commentary audio track that had no name
\* is named 'Commentary'; a video track is given an empty Name exactly when
\* it is the only video track.  The name written for a track is overwritten
\* by the one written for a later track that shares its dict.
C26_AsClaimed ==
    [][NamesStep =>
          \A t \in Range(track_order) :
              /\ t \in DOMAIN track_options'
              /\ NameAsClaimed(t, GetTrackOptions(Job, t), track_options'[t],
                               Cardinality({v \in Range(track_order) : TypeOf(v) = Video}))]_vars

\* the arguments auto_assign_track_options is called with by default
DefaultKeywords == Keywords(TRUE, FALSE)

\* the last call was auto_assign_track_options with its default arguments
DefaultCall ==
    /\ job_out.call = "auto_assign_track_options"
    /\ job_out.args = DefaultKeywords
    /\ job_error = ""

\* the step is such a call, made right after such a call
SecondDefaultCall ==
    /\ DefaultCall
    /\ job_out'.call = "auto_assign_track_options"
    /\ job_out'.args = DefaultKeywords
    /\ job_passes' = job_passes + 1

\* C29: on a job whose tracks each have a dict of their own, a call of
\* auto_assign_track_options with its default arguments that follows such a
\* call raises nothing and leaves the option dict of every track as the
\* first call left it.
C29_Idempotent ==
    [][(SecondDefaultCall /\ OwnOptions) =>
          /\ job_error' = ""
          /\ track_options' = track_options
          /\ track_order' = track_order]_vars

\* two calls with the default arguments have been made on a job of three
\* tracks with dicts of their own, one of them given a Name option, and
\* flags have been inferred and default flags assigned
C29_Witness ==
    /\ job_passes = 2
    /\ DefaultCall
    /\ OwnOptions
    /\ Len(track_order) = 3
    /\ \E t \in Range(track_order) :
           /\ NamedAs(GetTrackOptions(Job, t), "SDH")
           /\ "HearingImpaired" \in DictKeys(GetTrackOptions(Job, t))
    /\ \E t \in Range(track_order) : DefaultIs(t, FALSE)

\* the number of tracks of the type of the track that come before it in the
\* full track list of its container
RankInContainer(track) ==
    LET full == ContainerTracksOf(track.container)
        place == CHOOSE k \in 1..Len(full) : full[k] = track
    IN Cardinality({k \in 1..(place - 1) : TypeOf(full[k]) = TypeOf(track)})

\* the tracks of the list with the rank, in the order of the list
OfRank(list, rank) == SelectSeq(list, LAMBDA t : RankInContainer(t) = rank)

\* C27: whatever list a selection is made from, the full list of a container
\* or a reduced one, typeIndex of a track is the number of tracks of its type
\* before it in the full list of its container: 'typeIndex == n' selects the
\* tracks of the list with that rank, and '-typeIndex == n' removes them.
C27_TypeIndexOfContainer ==
    (sel_pc = "returned") =>
        /\ selector = <<"typeIndex == 0">> => sel_result = OfRank(track_list, 0)
        /\ selector = <<"typeIndex == 1">> => sel_result = OfRank(track_list, 1)
        /\ selector = <<"all", ":", "-", "typeIndex == 1">> =>
               sel_result = SelectSeq(track_list, LAMBDA t : RankInContainer(t) # 1)

\* the second audio track and the second video track of the container have
\* been selected by 'typeIndex == 1' from a list without the first ones
C27_Witness ==
    /\ sel_pc = "returned"
    /\ selector = <<"typeIndex == 1">>
    /\ track_list = <<Movie(2), Movie(3), Movie(4)>>
    /\ sel_result = <<Movie(2), Movie(3)>>

\* the calls that were made on a track
CallsOn(track) == SelectSeq(edit_calls, LAMBDA c : c.track = track)

\* the position of the first call that was made on a track
FirstCallOn(track) ==
    CHOOSE i \in 1..Len(edit_calls) :
        /\ edit_calls[i].track = track
        /\ \A k \in 1..(i - 1) : edit_calls[k].track # track

\* the tracks that received a call, in the order of their first call
TracksByFirstCall ==
    LET tracks == {edit_calls[i].track : i \in 1..Len(edit_calls)} \ {NoTrack}
    IN [r \in 1..Cardinality(tracks) |->
           CHOOSE t \in tracks :
               Cardinality({u \in tracks : FirstCallOn(u) < FirstCallOn(t)}) = r - 1]

\* the pair of arguments a call on a track is written as
PairOfCall(c) ==
    CASE c.action = Set -> <<"--set", c.name \o "=" \o c.value>>
      [] c.action = Add -> <<"--add", c.name \o "=" \o c.value>>
      [] c.action = Delete -> <<"--delete", c.name>>

\* the group of a track: its selector, then one pair for each of its calls
GroupOfTrack(track) ==
    <<"--edit", "track:" \o ToString(track.index + 1)>>
    \o Flatten([i \in 1..Len(CallsOn(track)) |-> PairOfCall(CallsOn(track)[i])])

\* the arguments of the tags, the chapters and the title that were asked for
HeadOfCalls ==
    LET made(method) == SelectSeq(edit_calls, LAMBDA c : c.method = method)
    IN Flatten([i \in 1..Len(made("set_tags")) |-> <<"--tags", "global:tags.xml">>])
       \o (IF made("delete_chapters") # <<>> THEN <<"--chapters", "">> ELSE <<>>)
       \o (IF made("set_container_title") # <<>>
           THEN <<"--edit", "info", "--set", "title=Movie">> ELSE <<>>)

\* C28: the generated arguments of an EditJob are the file name, then the
\* arguments of the tags, the chapters and the container title, then one
\* "--edit track:<index+1>" group for each track that received a call, the
\* groups in the order of the tracks' first calls, each group with one
\* --set/--add/--delete pair for each call on its track in the order of the
\* calls, none dropped and none merged.
C28_GroupsOfCalls ==
    edit_out # <<>> =>
        edit_out = <<"movie.mkv">> \o HeadOfCalls
                   \o Flatten([r \in 1..Len(TracksByFirstCall) |->
                                  GroupOfTrack(TracksByFirstCall[r])])

\* a property of one track was changed twice, with a call on another track
\* in between, and the arguments were generated
C28_Witness ==
    /\ Len(edit_calls) = 3
    /\ edit_calls[1].track = edit_calls[3].track
    /\ edit_calls[1].name = edit_calls[3].name
    /\ edit_calls[2].track \notin {NoTrack, edit_calls[1].track}
    /\ edit_out # <<>>

\* the place in the container's track list of the first track that the job
\* already has
FirstDuplicate(container) ==
    LET tracks == ContainerTracksOf(container)
    IN CHOOSE d \in 1..Len(tracks) :
           /\ InList(tracks[d], track_order)
           /\ \A i \in 1..(d - 1) : ~InList(tracks[i], track_order)

\* append_all_tracks raised MuxDuplicateTrackFound in this step
FailedAppendAll ==
    /\ job_out'.call = "append_all_tracks"
    /\ job_error' = "MuxDuplicateTrackFound"

\* C30: when append_all_tracks raises MuxDuplicateTrackFound, the container
\* options it was given are stored, the tracks of the container before the
\* duplicate are appended, each with the common options, and no track after
\* the duplicate is appended.
C30_NotAtomic ==
    [][FailedAppendAll =>
          LET c == job_out'.container
              tracks == ContainerTracksOf(c)
              d == FirstDuplicate(c)
          IN /\ job_out'.args[1] # "None" =>
                    /\ c \in DOMAIN container_options'
                    /\ container_options'[c] = <<Item("NoChapters", PyBool(TRUE))>>
             /\ track_order' = track_order \o SubSeq(tracks, 1, d - 1)
             /\ job_out'.args[2] # "None" =>
                    \A i \in 1..(d - 1) :
                        /\ tracks[i] \in DOMAIN track_options'
                        /\ track_options'[tracks[i]] = <<Item("Name", PyStr("Main"))>>
             /\ \A i \in (d + 1)..Len(tracks) :
                    InList(tracks[i], track_order') <=> InList(tracks[i], track_order)]_vars

\* append_all_tracks of the three tracks of a container, with container
\* options and common options, raised for the second track: the first track
\* is appended with the common options, the third is not appended
C30_Witness ==
    /\ job_out.call = "append_all_tracks"
    /\ job_out.container = "feature"
    /\ job_out.args = <<"NoChapters", "Name">>
    /\ job_error = "MuxDuplicateTrackFound"
    /\ track_order = <<Track("feature", 1), Track("feature", 0)>>
    /\ "feature" \in DOMAIN container_options

====
